---- MODULE Spec2Model ----
(***************************************************************************)
(* A model of lua_w, a header-only C++17 binding layer over the Lua C API. *)
(* The model follows the latest revision of the header held in             *)
(* src/lua_w.h (lines 924-1936: Result<T>, LuaObjectReference, Table,      *)
(* Function, stack_push, stack_get, registered_function, TypeWrapper).     *)
(*                                                                         *)
(* Part I   (Spec)      reference handles, the registry and the instances  *)
(* Part II  (SpecCodec) stack_push / stack_get / set_global / get_global   *)
(* Part III (SpecCall)  closures made by wrap_function, add_constructor    *)
(*                      and add_method, as called by the runtime           *)
(* Part IV  (SpecPtr)   pointers to objects read back under the safety     *)
(*                      layer                                              *)
(* Part V   (SpecVm)    Table: length, get, set, for_each as sequences of  *)
(*                      Lua C API calls on an explicit stack               *)
(* Part VI  (SpecFn)    Function: calls through handles and by name        *)
(* Part VII (SpecTy)    TypeWrapper: registration, methods, parent links   *)
(* Part VIII (SpecExt)  TypeWrapper: constructors, static methods,         *)
(*                      metamethods, detected operators; instanceof        *)
(* Part IX  (SpecTag)   pointers pushed as light userdata and the          *)
(*                      metatable they show, in the three revisions held   *)
(*                      in src/                                            *)
(* Part X   (SpecHeap)  instances of a registered class: construction,     *)
(*                      copies, collection, member accessors               *)
(***************************************************************************)
EXTENDS Integers, Sequences, FiniteSets, TLC

\* ------------------------------------------------------------------------
\* Bounds of the model
\* ------------------------------------------------------------------------

\* deepest evaluation stack explored per runtime instance
MaxStack == 2

\* number of heap addresses std::make_shared may hand out (addresses are
\* reused after a block is freed)
MaxAddrs == 2

\* largest number of copies of one Table / Function object alive at a time
\* (the use count of its std::shared_ptr)
MaxCopies == 2

\* ------------------------------------------------------------------------
\* Lua values
\* ------------------------------------------------------------------------

\* A value of the runtime: type tag t, numeric payload n, string payload s.
\* Tables and functions carry their identity in n and their owning
\* instance in s (a collectable object belongs to one lua_State).
Nil == [t |-> "nil", n |-> 0, s |-> ""]

Bool(b) == [t |-> "boolean", n |-> IF b THEN 1 ELSE 0, s |-> ""]

Num(k) == [t |-> "number", n |-> k, s |-> ""]

Str(x) == [t |-> "string", n |-> 0, s |-> x]

TabV(L, i) == [t |-> "table", n |-> i, s |-> L]

FunV(L, i) == [t |-> "function", n |-> i, s |-> L]

\* ------------------------------------------------------------------------
\* Part I: runtime instances, registry, reference handles
\* ------------------------------------------------------------------------

\* the lua_State objects the host has created with luaL_newstate
Instances == {"L1", "L2"}

Addrs == 1..MaxAddrs

\* the tables a script has created in each instance, and their keys
TableIds == {1}

TableKeys == {1}

\* values a script of instance L can leave on the stack
ScriptValues(L) == {FunV(L, 1)} \cup {TabV(L, i) : i \in TableIds}

VARIABLES
    closed,     \* the instances on which lua_close has been called
    stack,      \* stack[L]: the evaluation stack of instance L, bottom first
    registry,   \* registry[L][k]: LUA_REGISTRYINDEX of L under light-userdata key k
    tables,     \* tables[L][i][k]: the entry of table i of instance L under key k
    refs,       \* refs[a]: the LuaObjectReference block at heap address a:
                \*   L the lua_State* it stores, count the use count of the
                \*   shared_ptr owning it, i.e. the number of live Table / Function
                \*   objects that are copies of one another (0: no block at a),
                \*   kind the class of those objects
    fault,      \* "none", or the undefined behaviour the program has run into
    target,     \* history: target[a] is the value the block at a was created for
    freed,      \* history: the free addresses at which a block has been destroyed
    accessed,   \* history: the instances whose stack or registry the last operation used
    last,       \* history: the last operation and its arguments
    codec,      \* Part II: one value on its way host -> runtime -> host
    call,       \* Part III: the call of a closure the runtime is making or has made
    vm,         \* Part V: one table, the stack it is used on, the last Table operation
    fn,         \* Part VI: one script function, the stack, the last Function call
    ty,         \* Parts VII, VIII: the types registered with TypeWrapper and their tables
    light,        \* Part IX: the pointers pushed and the metatable light userdata show
    heap        \* Part X: the userdata blocks of a registered class

refVars == <<closed, stack, registry, tables, refs, fault, target, freed, accessed, last>>

objVars == <<light, heap>>

extVars == <<vm, fn, ty, objVars>>

vars == <<refVars, codec, call, extVars>>

NoRef == [L |-> "none", count |-> 0, kind |-> "none"]

\* reused: the operation has built a block at an address freed before
NoOp == [op |-> "init", L |-> "none", a |-> 0, reused |-> FALSE]

Op(op, L, a) == [op |-> op, L |-> L, a |-> a, reused |-> FALSE]

\* lua_w.h:1065 - the registry key of a reference is the address of its L field
get_object_id_SharedKey(a) == 1
get_object_id(a) == a

\* absolute position of an acceptable stack index (negative counts from the top)
AbsIndex(L, idx) == IF idx > 0 THEN idx ELSE Len(stack[L]) + idx + 1

ValidIndices(L) == {i \in (-MaxStack)..MaxStack : i # 0 /\ AbsIndex(L, i) \in 1..Len(stack[L])}

\* lua_istable / lua_isfunction as used by stack_get<Table> / stack_get<Function>
KindMatches(kind, v) ==
    \/ kind = "Table" /\ v.t = "table"
    \/ kind = "Function" /\ v.t = "function"

\* lua_rawsetp(L, LUA_REGISTRYINDEX, k) with value v on top of the stack
lua_rawsetp(reg, L, k, v) == [reg EXCEPT ![L][k] = v]

\* lua_rawgetp(L, LUA_REGISTRYINDEX, k): the value pushed
lua_rawgetp(reg, L, k) == reg[L][k]

FreeAddrs == {a \in Addrs : refs[a].count = 0}

\* ~LuaObjectReference, lua_w.h:1067-1071: lua_pushnil; lua_rawsetp
DtorRegistry(reg, a) == lua_rawsetp(reg, refs[a].L, get_object_id(a), Nil)

\* std::shared_ptr: the destructor of the block runs when the last owner goes
IsLastOwner_Any(a) == TRUE
IsLastOwner(a) == refs[a].count = 1

\* the instance whose registry push_to_stack(L) reads, lua_w.h:1132-1135
PushSource_OwnState(a, L) == refs[a].L
PushSource(a, L) == L

TypeOK ==
    /\ closed \subseteq Instances
    /\ \A L \in Instances : Len(stack[L]) <= MaxStack
    /\ \A a \in Addrs : refs[a].count \in 0..MaxCopies
    /\ fault \in {"none", "use_after_close", "lua_error", "invalid_result"}

InitRefs ==
    /\ closed = {}
    /\ stack = [L \in Instances |-> <<>>]
    /\ registry = [L \in Instances |-> [k \in Addrs |-> Nil]]
    /\ tables = [L \in Instances |-> [i \in TableIds |-> [k \in TableKeys |-> Nil]]]
    /\ refs = [a \in Addrs |-> NoRef]
    /\ fault = "none"
    /\ target = [a \in Addrs |-> Nil]
    /\ freed = {}
    /\ accessed = {}
    /\ last = NoOp

\* The script (or the host through the C API) leaves a value on the stack.
PushValue(L, v) ==
    /\ fault = "none"
    /\ L \notin closed
    /\ Len(stack[L]) < MaxStack
    /\ stack' = [stack EXCEPT ![L] = Append(@, v)]
    /\ accessed' = {L}
    /\ last' = Op("push", L, 0)
    /\ UNCHANGED <<closed, registry, tables, refs, fault, target, freed>>
    /\ UNCHANGED <<codec, call, extVars>>

\* lua_pop(L, 1)
Pop(L) ==
    /\ fault = "none"
    /\ L \notin closed
    /\ Len(stack[L]) > 0
    /\ stack' = [stack EXCEPT ![L] = SubSeq(@, 1, Len(@) - 1)]
    /\ accessed' = {L}
    /\ last' = Op("pop", L, 0)
    /\ UNCHANGED <<closed, registry, tables, refs, fault, target, freed>>
    /\ UNCHANGED <<codec, call, extVars>>

\* Result<T>::Result(), lua_w.h:1012: isValid is false, the storage is left
\* as it came
Result_default == [isValid |-> FALSE, storage |-> "uninitialised"]

\* Result<T>::~Result(), lua_w.h:1019: for a T that is not trivially
\* destructible ~T runs on the storage, whatever isValid says
Result_destructor(r, trivially_destructible) ==
    IF trivially_destructible THEN "none"
    ELSE IF r.storage = "uninitialised" THEN "invalid_result"
    ELSE "none"

\* stack_get<Table>(L, idx) / stack_get<Function>(L, idx), lua_w.h:1334-1337,
\* with Table::get_form_stack (1139-1147) and Function::get_form_stack
\* (1282-1290): make_shared, lua_pushvalue, lua_rawsetp. The temporaries of
\* the return path are copies that die at once; one object remains.
StackGetHandle(L, idx, kind) ==
    /\ fault = "none"
    /\ L \notin closed
    /\ idx \in ValidIndices(L)
    /\ LET v == stack[L][AbsIndex(L, idx)] IN
       IF KindMatches(kind, v)
       THEN \E a \in FreeAddrs :
               /\ refs' = [refs EXCEPT ![a] = [L |-> L, count |-> 1, kind |-> kind]]
               /\ registry' = lua_rawsetp(registry, L, get_object_id(a), v)
               /\ target' = [target EXCEPT ![a] = v]
               /\ freed' = freed \ {a}
               /\ last' = [Op("get_form_stack", L, a) EXCEPT !.reused = a \in freed]
               /\ UNCHANGED fault
       ELSE \* an empty Result<Table> comes back; ~Result (lua_w.h:1019) runs
            \* ~Table on its uninitialised storage
            /\ last' = Op("get_mismatch", L, 0)
            /\ fault' = Result_destructor(Result_default, FALSE)
            /\ UNCHANGED <<refs, registry, target, freed>>
    /\ accessed' = {L}
    /\ UNCHANGED <<closed, stack, tables>>
    /\ UNCHANGED <<codec, call, extVars>>

\* copy construction of the Table / Function whose block is at a
CopyHandle(a) ==
    /\ fault = "none"
    /\ refs[a].count \in 1..(MaxCopies - 1)
    /\ refs' = [refs EXCEPT ![a].count = @ + 1]
    /\ accessed' = {}
    /\ last' = Op("copy", refs[a].L, a)
    /\ UNCHANGED <<closed, stack, registry, tables, fault, target, freed>>
    /\ UNCHANGED <<codec, call, extVars>>

\* destruction of one Table / Function whose block is at a; the last owner
\* runs ~LuaObjectReference (lua_w.h:1067-1071) on the stored lua_State*,
\* whether or not that state is still open.
DropHandle(a) ==
    /\ fault = "none"
    /\ refs[a].count > 0
    /\ LET L == refs[a].L IN
       /\ last' = Op("drop", L, a)
       /\ IF IsLastOwner(a)
          THEN /\ refs' = [refs EXCEPT ![a] =
                              IF refs[a].count = 1 THEN NoRef
                              ELSE [@ EXCEPT !.count = @ - 1]]
               /\ target' = [target EXCEPT ![a] = IF refs[a].count = 1 THEN Nil ELSE @]
               /\ freed' = IF refs[a].count = 1 THEN freed \cup {a} ELSE freed
               /\ accessed' = {L}
               /\ IF L \in closed
                  THEN /\ fault' = "use_after_close"
                       /\ UNCHANGED registry
                  ELSE /\ registry' = DtorRegistry(registry, a)
                       /\ UNCHANGED fault
          ELSE /\ refs' = [refs EXCEPT ![a].count = @ - 1]
               /\ accessed' = {}
               /\ UNCHANGED <<registry, fault, target, freed>>
    /\ UNCHANGED <<closed, stack, tables>>
    /\ UNCHANGED <<codec, call, extVars>>

\* Table::push_to_stack(L) / Function::push_to_stack(L), lua_w.h:1132-1135 and
\* 1275-1278 (reached through stack_push(L, handle), lua_w.h:1302-1303)
PushToStack(a, L) ==
    /\ fault = "none"
    /\ refs[a].count > 0
    /\ L \notin closed
    /\ Len(stack[L]) < MaxStack
    /\ LET src == PushSource(a, L)
           v == lua_rawgetp(registry, src, get_object_id(a))
       IN
       /\ stack' = [stack EXCEPT ![L] = Append(@, v)]
       /\ accessed' = {L, src}
       /\ last' = Op("push_to_stack", L, a)
    /\ UNCHANGED <<closed, registry, tables, refs, fault, target, freed>>
    /\ UNCHANGED <<codec, call, extVars>>

\* Table::set<int, int>(key, value), lua_w.h:1191-1220 (integer-key branch):
\* lua_rawgetp, stack_push(value), lua_seti, lua_pop
TableSet(a, key, value) ==
    /\ fault = "none"
    /\ refs[a].count > 0
    /\ refs[a].kind = "Table"
    /\ LET L == refs[a].L
           t == lua_rawgetp(registry, L, get_object_id(a))
       IN
       /\ accessed' = {L}
       /\ last' = Op("set", L, a)
       /\ IF L \in closed
          THEN /\ fault' = "use_after_close"
               /\ UNCHANGED tables
          ELSE IF t.t # "table"
          THEN /\ fault' = "lua_error"    \* lua_seti on a non-table raises
               /\ UNCHANGED tables
          ELSE /\ tables' = [tables EXCEPT ![L][t.n][key] = Num(value)]
               /\ UNCHANGED fault
    /\ UNCHANGED <<closed, stack, registry, refs, target, freed>>
    /\ UNCHANGED <<codec, call, extVars>>

\* lua_close(L): the stack, the registry and every object of L are freed
LuaClose(L) ==
    /\ fault = "none"
    /\ L \notin closed
    /\ closed' = closed \cup {L}
    /\ stack' = [stack EXCEPT ![L] = <<>>]
    /\ registry' = [registry EXCEPT ![L] = [k \in Addrs |-> Nil]]
    /\ tables' = [tables EXCEPT ![L] = [i \in TableIds |-> [k \in TableKeys |-> Nil]]]
    /\ accessed' = {}
    /\ last' = Op("close", L, 0)
    /\ UNCHANGED <<refs, fault, target, freed>>
    /\ UNCHANGED <<codec, call, extVars>>

\* The operations of a host that drives one runtime instance.
Next ==
    \/ \E v \in ScriptValues("L1") : PushValue("L1", v)
    \/ Pop("L1")
    \/ \E idx \in (-MaxStack)..MaxStack :
          \E kind \in {"Table", "Function"} : StackGetHandle("L1", idx, kind)
    \/ \E a \in Addrs : CopyHandle(a)
    \/ \E a \in Addrs : DropHandle(a)
    \/ \E a \in Addrs : PushToStack(a, "L1")
    \/ \E a \in Addrs : \E k \in TableKeys : TableSet(a, k, 1)
    \/ LuaClose("L1")

\* The operations of a host that drives two runtime instances and may hand
\* an object of one to the other.
NextCross ==
    \/ \E L \in Instances : PushValue(L, TabV(L, 1))
    \/ \E L \in Instances : Pop(L)
    \/ \E L \in Instances : \E idx \in (-MaxStack)..MaxStack :
          \E kind \in {"Table", "Function"} : StackGetHandle(L, idx, kind)
    \/ \E a \in Addrs : DropHandle(a)
    \/ \E a \in Addrs : \E L \in Instances : PushToStack(a, L)

\* ------------------------------------------------------------------------
\* Part II: the codec - stack_push, stack_get, set_global, get_global
\* ------------------------------------------------------------------------

\* Widths, scaled down so that the values can be enumerated: long long has
\* LongBits bits (64 in the build), the significand of lua_Number (double)
\* has MantBits bits (53 in the build); as in the build, MantBits < LongBits.
LongBits == 6

MantBits == 4

RECURSIVE Pow2(_)
Pow2(n) == IF n = 0 THEN 1 ELSE 2 * Pow2(n - 1)

LLMin == 0 - Pow2(LongBits - 1)

LLMax == Pow2(LongBits - 1) - 1

LongLongs == LLMin..LLMax

Abs(k) == IF k < 0 THEN 0 - k ELSE k

\* the spacing of the lua_Number values around k
RECURSIVE UlpFrom(_, _)
UlpFrom(k, step) == IF Abs(k) < Pow2(MantBits) * step THEN step ELSE UlpFrom(k, 2 * step)

\* static_cast<lua_Number>(k) of an integer k: the nearest lua_Number, ties
\* to the even significand
RoundToDouble(k) ==
    LET step == UlpFrom(k, 1)
        q == k \div step
        r == k % step
    IN  IF 2 * r < step THEN q * step
        ELSE IF 2 * r > step THEN (q + 1) * step
        ELSE IF q % 2 = 0 THEN q * step ELSE (q + 1) * step

\* the lua_Number values of the model: the integers a double holds exactly
\* over the range the conversions can produce, and one NaN
Doubles == {RoundToDouble(k) : k \in LongLongs}

NaN == [t |-> "number", n |-> 0, s |-> "nan"]

LightUD(p) == [t |-> "lightuserdata", n |-> p, s |-> ""]

\* C++ values: the static type T, a numeric payload and a string payload
CV(T, n, s) == [T |-> T, n |-> n, s |-> s]

NoValue == CV("none", 0, "")

CStrings == {"", "C++ string", "10"}

CodecTypes == {"bool", "long long", "double", "const char*", "char*", "Table", "Function"}

\* the values the host passes to stack_push / set_global, by static type
HostValues ==
    {CV("bool", b, "") : b \in {0, 1}}
    \cup {CV("long long", k, "") : k \in LongLongs}
    \cup {CV("double", d, "") : d \in Doubles}
    \cup {CV("double", 0, "nan")}
    \cup {CV(T, 0, x) : T \in {"const char*", "char*"}, x \in CStrings}

\* the values a script can assign to a global (nil: the global is absent)
LuaValues ==
    {Nil, Bool(TRUE), Bool(FALSE), NaN, LightUD(1), TabV("L1", 1), FunV("L1", 1)}
    \cup {Num(d) : d \in {0, 10, 22}}
    \cup {Str(x) : x \in CStrings}

\* stack_push<TValue>(L, value), lua_w.h:1298-1324: the value left on the stack
stack_push_BoolAsNumber(v) ==
    IF v.T \in {"bool", "long long"} THEN Num(RoundToDouble(v.n))
    ELSE IF v.T = "double" THEN [t |-> "number", n |-> v.n, s |-> v.s]
    ELSE IF v.T = "void*" THEN LightUD(v.n)
    ELSE Str(v.s)
stack_push(v) ==
    IF v.T = "bool" THEN Bool(v.n = 1)
    ELSE IF v.T = "long long" THEN Num(RoundToDouble(v.n))
    ELSE IF v.T = "double" THEN [t |-> "number", n |-> v.n, s |-> v.s]
    ELSE IF v.T = "void*" THEN LightUD(v.n)
    ELSE Str(v.s)

\* lua_isstring: a string or a number
lua_isstring(x) == x.t \in {"string", "number"}

\* lua_tostring where lua_isstring holds (a float prints with ".0"; a number
\* whose s is ".5" is n + 0.5)
lua_tostring(x) ==
    IF x.t = "string" THEN x.s
    ELSE IF x.s = "nan" THEN "nan"
    ELSE IF x.s = ".5" THEN ToString(x.n) \o ".5"
    ELSE ToString(x.n) \o ".0"

\* the numbers a string denotes (lua_stringtonumber): the numeral "10", and
\* what lua_tostring prints for a number other than NaN ("nan" is rejected)
Numerals ==
    {<<lua_tostring(d), d>> :
        d \in {[t |-> "number", n |-> k, s |-> f] : k \in LongLongs \cup Doubles, f \in {"", ".5"}}}

lua_stringtonumber(str) ==
    (IF str = "10" THEN {Num(10)} ELSE {}) \cup {p[2] : p \in {q \in Numerals : q[1] = str}}

\* lua_isnumber: a number, or a string convertible to a number
lua_isnumber(x) == x.t = "number" \/ (x.t = "string" /\ lua_stringtonumber(x.s) # {})

\* lua_tonumber where lua_isnumber holds
lua_tonumber(x) == IF x.t = "string" THEN CHOOSE d \in lua_stringtonumber(x.s) : TRUE ELSE x

\* lua_touserdata: the block address of a userdata, else NULL (0)
lua_touserdata(x) == IF x.t \in {"userdata", "lightuserdata"} THEN x.n ELSE 0

\* Result<T>, lua_w.h:1006-1029: a validity flag and the storage of a T
Ok(v) == [valid |-> TRUE, value |-> v]

Failure == [valid |-> FALSE, value |-> NoValue]

\* how returning a Result<T> ends, lua_w.h:1017-1019: the copy constructor and
\* the destructor of Result<T> act on the storage even when it holds no T,
\* which is undefined for a T that is not trivial (Table, Function)
ResultOutcomes(T, r) ==
    IF T \in {"Table", "Function"} /\ ~r.valid THEN {"returned", "undefined"} ELSE {"returned"}

\* stack_get<TValue>(L, idx), lua_w.h:1330-1357, on the value x at idx: the
\* set of results the build can produce. static_cast<long long> of a
\* lua_Number that is NaN or outside the range of long long is undefined:
\* any long long may come out.
stack_get(T, x) ==
    IF T = "Function" THEN (IF x.t = "function" THEN {Ok(CV(T, x.n, x.s))} ELSE {Failure})
    ELSE IF T = "Table" THEN (IF x.t = "table" THEN {Ok(CV(T, x.n, x.s))} ELSE {Failure})
    ELSE IF T = "bool" THEN (IF x.t = "boolean" THEN {Ok(CV(T, x.n, ""))} ELSE {Failure})
    ELSE IF T = "long long" THEN
        (IF ~lua_isnumber(x) THEN {Failure}
         ELSE LET d == lua_tonumber(x) IN
              IF d.s # "nan" /\ d.n \in LongLongs THEN {Ok(CV(T, d.n, ""))}
              ELSE {Ok(CV(T, k, "")) : k \in LongLongs})
    ELSE IF T = "double" THEN
        (IF lua_isnumber(x) THEN {Ok(CV(T, lua_tonumber(x).n, lua_tonumber(x).s))} ELSE {Failure})
    ELSE IF T = "const char*" THEN
        (IF lua_isstring(x) THEN {Ok(CV(T, 0, lua_tostring(x)))} ELSE {Failure})
    ELSE (IF lua_touserdata(x) # 0 THEN {Ok(CV(T, lua_touserdata(x), ""))} ELSE {Failure})

\* codec: op the last codec operation, via "stack" or "global", src the
\* C++ value the slot was written from (NoValue: written by a script), slot
\* the runtime value now on top of the stack / under the global name, T the
\* type last asked for and res the Result<T> returned
CodecIdle == [op |-> "init", via |-> "none", src |-> NoValue, slot |-> Nil, T |-> "none", res |-> Failure]

InitCodec == codec = CodecIdle

\* stack_push(L, v), lua_w.h:1298-1324
StackPush(v) ==
    /\ codec' = [CodecIdle EXCEPT !.op = "push", !.via = "stack", !.src = v, !.slot = stack_push(v)]
    /\ UNCHANGED <<refVars, call, extVars>>

\* set_global(L, name, v), lua_w.h:1456-1461: stack_push, lua_setglobal
SetGlobal(v) ==
    /\ codec' = [CodecIdle EXCEPT !.op = "push", !.via = "global", !.src = v, !.slot = stack_push(v)]
    /\ UNCHANGED <<refVars, call, extVars>>

\* a script assigns the global itself (nil removes it)
ScriptSetsGlobal(x) ==
    /\ codec' = [CodecIdle EXCEPT !.op = "script", !.via = "global", !.slot = x]
    /\ UNCHANGED <<refVars, call, extVars>>

\* the value at idx after stack_get<T>(L, idx): lua_tostring (lua_tolstring)
\* rewrites a number slot into the string it returns
SlotAfterGet(T, x) == IF T = "const char*" /\ x.t = "number" THEN Str(lua_tostring(x)) ELSE x

\* stack_get<T>(L, -1), lua_w.h:1330-1357, with what it leaves in the slot
StackGet(T) ==
    /\ codec.via = "stack"
    /\ \E r \in stack_get(T, codec.slot) :
          codec' = [codec EXCEPT !.op = "get", !.T = T, !.res = r,
                                 !.slot = SlotAfterGet(T, codec.slot)]
    /\ UNCHANGED <<refVars, call, extVars>>

\* get_global<T>(L, name), lua_w.h:1446-1453: lua_getglobal, stack_get, lua_pop
GetGlobal(T) ==
    /\ codec.via = "global"
    /\ \E r \in stack_get(T, codec.slot) :
          codec' = [codec EXCEPT !.op = "get", !.T = T, !.res = r]
    /\ UNCHANGED <<refVars, call, extVars>>

NextCodec ==
    \/ \E v \in HostValues : StackPush(v)
    \/ \E v \in HostValues : SetGlobal(v)
    \/ \E x \in LuaValues : ScriptSetsGlobal(x)
    \/ \E T \in CodecTypes : StackGet(T)
    \/ \E T \in CodecTypes : GetGlobal(T)

\* ------------------------------------------------------------------------
\* Part III: closures called by the runtime - registered_function,
\* the constructor closure of add_constructor, call_method_impl
\* ------------------------------------------------------------------------

\* longest parameter list of a bound function, constructor or method
MaxParams == 2

\* largest number of arguments a script passes in a call
MaxArgs == 2

UD(type, addr) == [t |-> "userdata", n |-> addr, s |-> type]

\* what the C API reports for an index above the top of the stack (LUA_TNONE)
NoneV == [t |-> "none", n |-> 0, s |-> ""]

\* the block lua_newuserdata has just returned: storage without an object
RawUD == UD("raw", 9)

\* Type2 derives from Type1; Other is unrelated (all registered types)
IsA(dyn, cls) == dyn = cls \/ (dyn = "Type2" /\ cls = "Type1")

\* the declared parameter types TArgs
ParamKinds == {"double", "const char*", "Type1*", "Table"}

ArgValues == {Num(22), Str("String"), TabV("L1", 1), UD("Type1", 1), UD("Other", 3)}

Receivers == ArgValues \cup {Nil, UD("Type2", 2)}

ParamLists == UNION {[1..n -> ParamKinds] : n \in 0..MaxParams}

ArgLists == UNION {[1..n -> ArgValues] : n \in 0..MaxArgs}

\* internal::get_pointer_from_stack<cls*>(L, idx), lua_w.h:1100-1109, on the
\* value x: the pointers the build can return (0: nullptr). With the safety
\* layer the block is read as a LuaBaseObject; on storage that holds no
\* object yet ("raw"), or no LuaBaseObject at all (""), the dynamic_cast is
\* undefined.
get_pointer_from_stack_Unchecked(cls, x, safety) == {lua_touserdata(x)}
get_pointer_from_stack(cls, x, safety) ==
    LET ptr == lua_touserdata(x) IN
    IF ~safety THEN {ptr}
    ELSE IF ptr = 0 THEN {0}
    ELSE IF x.s \in {"raw", ""} THEN {0, ptr}
    ELSE IF IsA(x.s, cls) THEN {ptr} ELSE {0}

\* the process has left defined behaviour while producing the Result
Undefined == [valid |-> FALSE, value |-> CV("undefined", 0, "")]

\* stack_get<T>(L, idx) as the closures use it, lua_w.h:1330-1357; an empty
\* Result<Table> is destroyed as if it held a Table (lua_w.h:1019), which
\* may pass unnoticed or bring the process down
Extract(T, x, safety) ==
    IF T = "Type1*"
    THEN {IF ptr = 0 THEN Failure ELSE Ok(CV(T, ptr, x.s)) :
              ptr \in get_pointer_from_stack("Type1", x, safety)}
    ELSE IF T = "Table" /\ x.t # "table" THEN {Failure, Undefined}
    ELSE stack_get(T, x)

\* { stack_get<TArgs>(L, argCounter++).value() ... }: the parameters are
\* extracted left to right; value() of an empty Result throws and ends it.
\* slots[i] is the stack value at the index read for parameter i.
RECURSIVE ExtractArgs(_, _, _, _)
ExtractArgs(params, slots, safety, i) ==
    IF i > Len(params) THEN {[vals |-> <<>>, failed |-> 0, crash |-> FALSE]}
    ELSE UNION {
            IF r = Undefined THEN {[vals |-> <<>>, failed |-> i, crash |-> TRUE]}
            ELSE IF ~r.valid THEN {[vals |-> <<>>, failed |-> i, crash |-> FALSE]}
            ELSE {[e EXCEPT !.vals = IF e.failed = 0 THEN <<r.value>> \o @ ELSE <<>>] :
                      e \in ExtractArgs(params, slots, safety, i + 1)}
            : r \in Extract(params[i], slots[i], safety)}

NoMsg == [fmt |-> "", pos |-> 0]

\* luaL_error(L, fmt, position)
luaL_error(fmt, position) == [fmt |-> fmt, pos |-> position]

\* call: kind of closure, its declared params, the args the script passed,
\* recv the value at index 1 of a method call, safety the build option,
\* failed the parameter whose extraction ended the list (0: none), invoked
\* whether the host function / constructor / member ran, hostArgs what it was
\* given, self the object pointer it ran on, outcome how the call ended,
\* msg the error raised and dflt whether the default constructor was the one
\* that ran
CallIdle ==
    [kind |-> "idle", params |-> <<>>, args |-> <<>>, recv |-> NoneV, safety |-> TRUE,
     failed |-> 0, invoked |-> FALSE, hostArgs |-> <<>>, self |-> 0,
     outcome |-> "none", msg |-> NoMsg, result |-> NoneV, dflt |-> FALSE]

InitCall == call = CallIdle

Ended(e, off, fmt) ==
    [failed |-> e.failed, hostArgs |-> e.vals,
     outcome |-> IF e.failed = 0 THEN "returned" ELSE IF e.crash THEN "crash" ELSE "lua_error",
     \* argCounter was incremented once per extraction begun
     msg |-> IF e.failed # 0 /\ ~e.crash
             THEN LET argCounter == off + e.failed IN luaL_error(fmt, argCounter - off)
             ELSE NoMsg]

\* internal::registered_function<TRet, TArgs...>, lua_w.h:1370-1401
CallFunction ==
    /\ call.kind = "idle"
    /\ \E params \in ParamLists : \E args \in ArgLists : \E safety \in BOOLEAN :
       LET slots == [i \in 1..Len(params) |-> IF i <= Len(args) THEN args[i] ELSE NoneV] IN
       \E e \in ExtractArgs(params, slots, safety, 1) :
          LET end == Ended(e, 1, "While calling a native function, argument %d. was missing or was of a wrong type") IN
          call' = [CallIdle EXCEPT !.kind = "function", !.params = params, !.args = args,
                     !.safety = safety, !.failed = end.failed, !.invoked = (e.failed = 0),
                     !.hostArgs = end.hostArgs, !.outcome = end.outcome, !.msg = end.msg]
    /\ UNCHANGED <<refVars, codec, extVars>>

\* the closure of TypeWrapper::add_constructor<TArgs...>, lua_w.h:1637-1657:
\* index 1 is the type table, the arguments follow, and lua_newuserdata has
\* pushed the new block above them before the first stack_get
CallConstructor ==
    /\ call.kind = "idle"
    /\ \E params \in ParamLists : \E args \in ArgLists : \E safety \in BOOLEAN :
       LET slots == [i \in 1..Len(params) |->
                        IF i <= Len(args) THEN args[i]
                        ELSE IF i = Len(args) + 1 THEN RawUD ELSE NoneV] IN
       \E e \in ExtractArgs(params, slots, safety, 1) :
          LET end == Ended(e, 2, "While constructing a native object argument %d. was missing or was of a wrong type") IN
          call' = [CallIdle EXCEPT !.kind = "constructor", !.params = params, !.args = args,
                     !.safety = safety, !.failed = end.failed, !.invoked = (e.failed = 0),
                     !.hostArgs = end.hostArgs, !.outcome = end.outcome, !.msg = end.msg,
                     !.self = IF e.failed = 0 THEN RawUD.n ELSE 0,
                     !.result = IF e.failed = 0 THEN UD("Type1", RawUD.n) ELSE NoneV]
    /\ UNCHANGED <<refVars, codec, extVars>>

\* the closure of TypeWrapper::add_custom_and_default_constructors<TArgs...>,
\* lua_w.h:1663-1688 (TArgs not empty): after lua_newuserdata, a stack of
\* height 2 (type table, new block) selects the default constructor;
\* otherwise the parameters are extracted as in add_constructor
CallConstructorOrDefault ==
    /\ call.kind = "idle"
    /\ \E params \in ParamLists \ {<<>>} : \E args \in ArgLists : \E safety \in BOOLEAN :
       LET lua_gettop == 1 + Len(args) + 1
           slots == [i \in 1..Len(params) |->
                        IF i <= Len(args) THEN args[i]
                        ELSE IF i = Len(args) + 1 THEN RawUD ELSE NoneV]
       IN
       IF lua_gettop = 2
       THEN call' = [CallIdle EXCEPT !.kind = "constructor_or_default", !.params = params,
                       !.args = args, !.safety = safety, !.invoked = TRUE, !.dflt = TRUE,
                       !.outcome = "returned", !.self = RawUD.n,
                       !.result = UD("Type1", RawUD.n)]
       ELSE \E e \in ExtractArgs(params, slots, safety, 1) :
               LET end == Ended(e, 2, "While constructing a native object argument %d. was missing or was of a wrong type") IN
               call' = [CallIdle EXCEPT !.kind = "constructor_or_default", !.params = params,
                          !.args = args, !.safety = safety, !.failed = end.failed,
                          !.invoked = (e.failed = 0), !.hostArgs = end.hostArgs,
                          !.outcome = end.outcome, !.msg = end.msg,
                          !.self = IF e.failed = 0 THEN RawUD.n ELSE 0,
                          !.result = IF e.failed = 0 THEN UD("Type1", RawUD.n) ELSE NoneV]
    /\ UNCHANGED <<refVars, codec, extVars>>

\* internal::call_method_impl<StoreType, Type1, TRet, TArgs...>,
\* lua_w.h:1536-1562: the receiver is (TClass*)lua_touserdata(L, 1); a member
\* function run on nullptr or on an object of another type is undefined
CallMethod ==
    /\ call.kind = "idle"
    /\ \E params \in ParamLists : \E recv \in Receivers : \E args \in ArgLists :
       \E safety \in BOOLEAN :
       LET slots == [i \in 1..Len(params) |-> IF i <= Len(args) THEN args[i] ELSE NoneV]
           self == lua_touserdata(recv)
       IN
       \E e \in ExtractArgs(params, slots, safety, 1) :
          LET end == Ended(e, 2, "While calling a native method, argument %d. was missing or was of a wrong type") IN
          \E out \in (IF e.failed = 0 /\ (self = 0 \/ ~IsA(recv.s, "Type1"))
                      THEN {"returned", "crash"} ELSE {end.outcome}) :
             call' = [CallIdle EXCEPT !.kind = "method", !.params = params, !.args = args,
                        !.recv = recv, !.safety = safety, !.failed = end.failed,
                        !.invoked = (e.failed = 0), !.hostArgs = end.hostArgs,
                        !.self = IF e.failed = 0 THEN self ELSE 0,
                        !.outcome = out, !.msg = end.msg]
    /\ UNCHANGED <<refVars, codec, extVars>>

\* the call is over (returned, or the error reached a pcall); the script goes on
CallDone ==
    /\ call.kind # "idle"
    /\ call.outcome # "crash"
    /\ call' = CallIdle
    /\ UNCHANGED <<refVars, codec, extVars>>

NextCall ==
    \/ CallFunction
    \/ CallConstructor
    \/ CallConstructorOrDefault
    \/ CallMethod
    \/ CallDone

\* ------------------------------------------------------------------------
\* Part IV: pointers to objects read back from the runtime
\* ------------------------------------------------------------------------

\* the classes of the host: Type2 derives from Type1, Other from neither
\* (all derive from LuaBaseObject)
Classes == {"Type1", "Type2", "Other"}

\* a light userdata holding the address of a host object of class type
PtrTo(type, addr) == [t |-> "lightuserdata", n |-> addr, s |-> type]

\* the objects a global can hold: instances made by a constructor closure
\* (full userdata) and host objects passed by pointer (light userdata)
ObjectValues ==
    {UD("Type1", 1), UD("Type2", 2), UD("Other", 3)}
    \cup {PtrTo("Type1", 4), PtrTo("Type2", 5), PtrTo("Other", 6)}

\* a script constructs an object and assigns it to the global
ScriptSetsObject(x) ==
    /\ x.t = "userdata"
    /\ codec' = [CodecIdle EXCEPT !.op = "script", !.via = "global", !.slot = x]
    /\ UNCHANGED <<refVars, call, extVars>>

\* set_global(L, name, &object), lua_w.h:1456-1461 with the pointer branch
\* of stack_push (1310-1311): lua_pushlightuserdata
SetGlobalPointer(x) ==
    /\ x.t = "lightuserdata"
    /\ codec' = [CodecIdle EXCEPT !.op = "push", !.via = "global", !.slot = x]
    /\ UNCHANGED <<refVars, call, extVars>>

\* get_global<cls*>(L, name), lua_w.h:1446-1453, through the pointer branch
\* of stack_get (1344-1348); T records the type asked for and the build
GetGlobalPointer(cls, safety) ==
    /\ codec.via = "global"
    /\ codec.op # "get"
    /\ \E ptr \in get_pointer_from_stack(cls, codec.slot, safety) :
          codec' = [codec EXCEPT !.op = "get",
                                 !.T = IF safety THEN cls \o "*" ELSE cls \o "* unchecked",
                                 !.res = IF ptr = 0 THEN Failure
                                         ELSE Ok(CV(cls \o "*", ptr, codec.slot.s))]
    /\ UNCHANGED <<refVars, call, extVars>>

NextPtr ==
    \/ \E x \in ObjectValues : ScriptSetsObject(x)
    \/ \E x \in ObjectValues : SetGlobalPointer(x)
    \/ \E x \in LuaValues : ScriptSetsGlobal(x)
    \/ \E cls \in Classes : \E safety \in BOOLEAN : GetGlobalPointer(cls, safety)

\* ------------------------------------------------------------------------
\* Part V: Table - length, get, set, for_each through one handle
\* ------------------------------------------------------------------------
MaxSeq == 3     \* the longest array a script builds
MaxSets == 2    \* Table::set calls made on one table

\* the lua_Number k + 0.5
Frac(k) == [t |-> "number", n |-> k, s |-> ".5"]

\* the table the handle refers to
TheTable == TabV("L1", 1)

\* the keys an entry of the table can sit under
VmKeys ==
    {Num(i) : i \in 1..MaxSeq} \cup {Str("Key"), Str("10"), Bool(TRUE), Frac(1), LightUD(1)}

EmptyTab == [k \in VmKeys |-> Nil]

\* the table constructors a script runs
TableLiterals ==
    { EmptyTab,
      [k \in VmKeys |-> IF k \in {Num(i) : i \in 1..MaxSeq} THEN k ELSE Nil],
      [k \in VmKeys |-> IF k = Str("Key") THEN Num(22) ELSE IF k = Str("10") THEN Num(10) ELSE Nil],
      [k \in VmKeys |-> IF k = Num(1) THEN Frac(12) ELSE IF k = Str("Key") THEN Str("Value") ELSE Nil],
      [k \in VmKeys |-> IF k = Num(1) THEN Num(1) ELSE IF k = Num(2) THEN Str("Value") ELSE Nil],
      [k \in VmKeys |-> IF k = Bool(TRUE) THEN Num(22) ELSE IF k = Frac(1) THEN Num(10) ELSE Nil] }

\* the keys and values the host passes to Table::get / Table::set, by static type
HostKeys ==
    { CV("const char*", 0, "Key"), CV("std::string", 0, "Key"),
      CV("long long", 1, ""),
      CV("double", 1, ".5"), CV("bool", 1, ""), CV("void*", 1, "") }

SetValues == {CV("double", 12, ".5"), CV("const char*", 0, "Value")}

GetTypes == {"double", "const char*", "Table"}

\* Lua state as Table's functions see it: stk the stack (bottom first), tab
\* the entries of the table, reg the registry slot of the handle, err whether
\* the runtime has raised an error
Push(st, x) == IF st.err THEN st ELSE [st EXCEPT !.stk = Append(@, x)]

lua_pop(st, n) == IF st.err THEN st ELSE [st EXCEPT !.stk = SubSeq(@, 1, Len(@) - n)]

At(st, idx) == st.stk[IF idx < 0 THEN Len(st.stk) + 1 + idx ELSE idx]

Raise(st) == [st EXCEPT !.err = TRUE]

Entry(st, k) == IF k \in VmKeys THEN st.tab[k] ELSE Nil

\* lua_pushvalue(L, idx)
lua_pushvalue(st, idx) == Push(st, At(st, idx))

\* lua_rawsetp(L, LUA_REGISTRYINDEX, id): pops the value into the handle's slot
rawsetp_slot(st) == IF st.err THEN st ELSE [lua_pop(st, 1) EXCEPT !.reg = At(st, -1)]

\* lua_rawgetp(L, LUA_REGISTRYINDEX, id): pushes the handle's slot
rawgetp_slot(st) == Push(st, st.reg)

\* lua_getfield(L, idx, name): pushes t[name], t the value at idx
lua_getfield(st, idx, name) ==
    IF st.err THEN st
    ELSE IF At(st, idx).t # "table" THEN Raise(st)
    ELSE Push(st, Entry(st, Str(name)))

\* lua_geti(L, idx, i): pushes t[i]
lua_geti(st, idx, i) ==
    IF st.err THEN st
    ELSE IF At(st, idx).t # "table" THEN Raise(st)
    ELSE Push(st, Entry(st, Num(i)))

\* lua_gettable(L, idx): pops the key, pushes t[key]
lua_gettable(st, idx) ==
    IF st.err THEN st
    ELSE IF At(st, idx).t # "table" THEN Raise(st)
    ELSE Push(lua_pop(st, 1), Entry(st, At(st, -1)))

\* t[k] = v; a nil key raises an error
Store(st, k, v) == IF k = Nil THEN Raise(st) ELSE [st EXCEPT !.tab[k] = v]

\* lua_setfield(L, idx, name): pops the value, t[name] = value
lua_setfield(st, idx, name) ==
    IF st.err THEN st
    ELSE IF At(st, idx).t # "table" THEN Raise(st)
    ELSE Store(lua_pop(st, 1), Str(name), At(st, -1))

\* lua_seti(L, idx, i): pops the value, t[i] = value
lua_seti(st, idx, i) ==
    IF st.err THEN st
    ELSE IF At(st, idx).t # "table" THEN Raise(st)
    ELSE Store(lua_pop(st, 1), Num(i), At(st, -1))

\* lua_settable(L, idx): pops the value and the key, t[key] = value
lua_settable(st, idx) ==
    IF st.err THEN st
    ELSE IF At(st, idx).t # "table" THEN Raise(st)
    ELSE Store(lua_pop(st, 2), At(st, -2), At(st, -1))

\* the borders of the table: lua_len pushes one of them
Borders(tab) ==
    {j \in 0..MaxSeq : /\ (j = 0 \/ tab[Num(j)] # Nil)
                       /\ (j = MaxSeq \/ tab[Num(j + 1)] = Nil)}

\* std::is_convertible_v<key_t, lua_Integer>, lua_w.h:1175, 1208
ConvertibleToInteger(T) == T \in {"long long", "double", "bool"}

\* (lua_Integer)key
ToInteger(key) == key.n

SetAt(st, idx, x) == [st EXCEPT !.stk[IF idx < 0 THEN Len(st.stk) + 1 + idx ELSE idx] = x]

\* Table::get_form_stack(L, idx), lua_w.h:1139-1147
get_form_stack(st, idx) == rawsetp_slot(lua_pushvalue(st, idx))

\* ~LuaObjectReference, lua_w.h:1067-1071: lua_pushnil, lua_rawsetp
DestroyReference(st) == rawsetp_slot(Push(st, Nil))

\* Table::length, lua_w.h:1150-1160, j the border lua_len pushes
Table_length(st, j) == lua_pop(Push(rawgetp_slot(st), Num(j)), 2)

\* Table::get up to the lookup, lua_w.h:1164-1184: the slot pushed and the
\* entry looked up, by the branch the key's static type selects
Table_get_Lookup(st, key) ==
    LET s1 == rawgetp_slot(st) IN
    IF key.T \in {"const char*", "char*", "std::string"} THEN lua_getfield(s1, -1, key.s)
    ELSE IF ConvertibleToInteger(key.T) THEN lua_geti(s1, -1, ToInteger(key))
    ELSE lua_gettable(Push(s1, stack_push(key)), -2)

\* Table::get<TKey, TValue>(key), lua_w.h:1164-1187: the states and results
\* the call can end with
Table_get(st, key, T) ==
    LET s2 == Table_get_Lookup(st, key)
        s3 == SetAt(s2, -1, SlotAfterGet(T, At(s2, -1)))
    IN  {[st |-> lua_pop(s3, 2), res |-> r] : r \in stack_get(T, At(s2, -1))}

\* Table::set(key, value), lua_w.h:1191-1220
Table_set_NoPop(st, key, value) ==
    LET s1 == rawgetp_slot(st) IN
    IF key.T \in {"const char*", "char*", "std::string"}
    THEN lua_setfield(Push(s1, stack_push(value)), -2, key.s)
    ELSE IF ConvertibleToInteger(key.T)
    THEN lua_seti(Push(s1, stack_push(value)), -2, ToInteger(key))
    ELSE lua_settable(Push(Push(s1, stack_push(key)), stack_push(value)), -3)
Table_set(st, key, value) ==
    LET s1 == rawgetp_slot(st)
        s2 == IF key.T \in {"const char*", "char*", "std::string"}
              THEN lua_setfield(Push(s1, stack_push(value)), -2, key.s)
              ELSE IF ConvertibleToInteger(key.T)
              THEN lua_seti(Push(s1, stack_push(value)), -2, ToInteger(key))
              ELSE lua_settable(Push(Push(s1, stack_push(key)), stack_push(value)), -3)
    IN  lua_pop(s2, 1)

ForEachMessage == "While iterating over a table, key or value couldn't be retrieved or were of a wrong type"

\* the loop of Table::for_each, lua_w.h:1228-1236, from a stack whose top is
\* the key lua_next continues from (nil at the start): rest the keys lua_next
\* has yet to produce (in an order the runtime chooses), log the calls of the
\* callback so far. lua_next raises an error when the key on top is not a key
\* of the table; Result::value() throws when a conversion failed, and the
\* catch block calls luaL_error with the table, key and value still pushed.
RECURSIVE ForEachFrom(_, _, _, _, _)
ForEachFrom(st, rest, log, TK, TV) ==
    IF At(st, -1) # Nil /\ Entry(st, At(st, -1)) = Nil
    THEN {[st |-> Raise(st), log |-> log, out |-> "lua_error", msg |-> "invalid key to 'next'"]}
    ELSE IF rest = {}
    THEN {[st |-> lua_pop(lua_pop(st, 1), 1), log |-> log, out |-> "returned", msg |-> ""]}
    ELSE UNION {
        LET s1 == Push(Push(lua_pop(st, 1), k), st.tab[k])
            s2 == SetAt(SetAt(s1, -2, SlotAfterGet(TK, At(s1, -2))), -1, SlotAfterGet(TV, At(s1, -1)))
        IN  UNION {
                IF kr.valid /\ vr.valid
                THEN ForEachFrom(lua_pop(s2, 1), rest \ {k}, Append(log, <<kr.value, vr.value>>), TK, TV)
                ELSE {[st |-> Raise(Push(s2, Str(ForEachMessage))), log |-> log,
                       out |-> "lua_error", msg |-> ForEachMessage]}
                : kr \in stack_get(TK, At(s1, -2)), vr \in stack_get(TV, At(s1, -1)) }
        : k \in rest }

\* Table::for_each<TKey, TValue>(function), lua_w.h:1222-1242, function a
\* callback that records its arguments
Table_for_each(st, TK, TV) ==
    ForEachFrom(Push(rawgetp_slot(st), Nil), {k \in VmKeys : st.tab[k] # Nil}, <<>>, TK, TV)

VmState0 == [stk |-> <<>>, tab |-> EmptyTab, reg |-> Nil, err |-> FALSE]

\* vm: st the runtime state now, st0 the state before the last operation, op
\* the last operation with its arguments key, val, TK, TV, res what it
\* returned, log the calls of the for_each callback, out how it ended, sets
\* the number of Table::set calls since the script ran
VmIdle ==
    [st |-> VmState0, st0 |-> VmState0, op |-> "init", key |-> NoValue, val |-> NoValue,
     TK |-> "none", TV |-> "none", res |-> Failure, log |-> <<>>, out |-> "returned",
     msg |-> "", sets |-> 0]

InitVm == vm = VmIdle

\* a script builds the table and leaves it on the stack
VmScript ==
    /\ \E lit \in TableLiterals :
          vm' = [VmIdle EXCEPT !.op = "script",
                               !.st = [stk |-> <<Str("below"), TheTable>>, tab |-> lit,
                                       reg |-> Nil, err |-> FALSE]]
    /\ UNCHANGED <<refVars, codec, call, fn, ty, objVars>>

VmReady == vm.op # "init" /\ ~vm.st.err /\ vm.out = "returned"

\* the host owns a handle and has just made or written it
VmHandle == VmReady /\ vm.st.reg # Nil /\ vm.op \in {"from_stack", "set"}

\* stack_get<Table>(L, idx): Table::get_form_stack
VmFromStack ==
    /\ VmReady /\ vm.st.reg = Nil
    /\ \E idx \in {-1, 2} :
          vm' = [VmIdle EXCEPT !.op = "from_stack", !.st0 = vm.st, !.sets = vm.sets,
                               !.st = get_form_stack(vm.st, idx)]
    /\ UNCHANGED <<refVars, codec, call, fn, ty, objVars>>

\* the last copy of the handle goes away
VmDrop ==
    /\ VmReady /\ vm.st.reg # Nil
    /\ vm' = [VmIdle EXCEPT !.op = "drop", !.st0 = vm.st, !.sets = vm.sets,
                            !.st = DestroyReference(vm.st)]
    /\ UNCHANGED <<refVars, codec, call, fn, ty, objVars>>

VmLength ==
    /\ VmHandle
    /\ \E j \in Borders(vm.st.tab) :
          vm' = [VmIdle EXCEPT !.op = "length", !.st0 = vm.st, !.sets = vm.sets,
                               !.st = Table_length(vm.st, j), !.res = Ok(CV("lua_Unsigned", j, ""))]
    /\ UNCHANGED <<refVars, codec, call, fn, ty, objVars>>

VmGet ==
    /\ VmHandle
    /\ \E key \in HostKeys, T \in GetTypes :
          \E e \in Table_get(vm.st, key, T) :
              \E out \in ResultOutcomes(T, e.res) :
                  vm' = [VmIdle EXCEPT !.op = "get", !.st0 = vm.st, !.sets = vm.sets,
                                       !.st = e.st, !.key = key, !.TV = T, !.res = e.res,
                                       !.out = out]
    /\ UNCHANGED <<refVars, codec, call, fn, ty, objVars>>

VmSet ==
    /\ VmHandle
    /\ vm.sets < MaxSets
    /\ \E key \in HostKeys, value \in SetValues :
          vm' = [VmIdle EXCEPT !.op = "set", !.st0 = vm.st, !.sets = vm.sets + 1,
                               !.st = Table_set(vm.st, key, value), !.key = key, !.val = value]
    /\ UNCHANGED <<refVars, codec, call, fn, ty, objVars>>

VmForEach ==
    /\ VmHandle
    /\ \E TK \in {"long long", "const char*"}, TV \in {"long long"} :
          \E e \in Table_for_each(vm.st, TK, TV) :
              vm' = [VmIdle EXCEPT !.op = "for_each", !.st0 = vm.st, !.sets = vm.sets,
                                   !.st = e.st, !.TK = TK, !.TV = TV, !.log = e.log,
                                   !.out = e.out, !.msg = e.msg]
    /\ UNCHANGED <<refVars, codec, call, fn, ty, objVars>>

NextVm == VmScript \/ VmFromStack \/ VmDrop \/ VmLength \/ VmGet \/ VmSet \/ VmForEach

\* ------------------------------------------------------------------------
\* Part VI: Function - calls of script functions through handles and by name
\* ------------------------------------------------------------------------
MaxHandles == 2     \* Function objects the host holds
MaxCalls == 3       \* calls made of the counting closures
CounterStart == 7   \* "local num = 7" of the closure the script's factory returns

\* the closures of the script: Counters are the inner closures the factory
\* `closure` returns, each with its own upvalue num; Second is
\* function(a, b) return b, "extra" end
Counters == {1, 2}
Second == 3
Factory == 4

Closure(c) == FunV("L1", c)

FnGlobals == [func |-> Closure(Second), closure |-> Closure(Factory), missing |-> Nil]

\* the argument lists the host calls with, and the result types it asks for
FnArgLists == {<<>>, <<CV("long long", 1, "")>>, <<CV("long long", 1, ""), CV("const char*", 0, "a")>>}

FnResultTypes == {"long long", "const char*", "Function", "void"}

\* the stack at the time of the call: empty, or holding the arguments of the
\* host closure (registered_function) that makes the call
FnFrames == {<<>>, <<Num(22), Str("C++ string")>>}

\* the body of closure c run on args with the upvalues up: the values it
\* returns, the upvalues afterwards, whether it raised an error
RunClosure(c, args, up) ==
    IF c \in Counters THEN
        \* num = num + 1; return num
        [results |-> <<Num(up[c] + 1)>>, up |-> [up EXCEPT ![c] = @ + 1], err |-> FALSE]
    ELSE IF c = Second THEN
        [results |-> <<IF Len(args) >= 2 THEN args[2] ELSE Nil, Str("extra")>>, up |-> up, err |-> FALSE]
    ELSE [results |-> <<>>, up |-> up, err |-> TRUE]

\* results adjusted to nresults values: truncated or padded with nil
Adjust(results, nresults) ==
    [i \in 1..nresults |-> IF i <= Len(results) THEN results[i] ELSE Nil]

\* fs: stk the stack, up the upvalues, err an error raised, callee / recv /
\* nres the closure the last lua_call entered, the arguments it received and
\* the number of results asked of it
FsPush(fs, x) == IF fs.err THEN fs ELSE [fs EXCEPT !.stk = Append(@, x)]

FsPop(fs, n) == IF fs.err THEN fs ELSE [fs EXCEPT !.stk = SubSeq(@, 1, Len(@) - n)]

\* (stack_push(L, args), ...): a fold over the comma operator, left to right
RECURSIVE PushArgs(_, _)
PushArgs(fs, args) ==
    IF args = <<>> THEN fs ELSE PushArgs(FsPush(fs, stack_push(Head(args))), Tail(args))

\* lua_call(L, nargs, nresults): the function is the value below the nargs
\* arguments; calling a value that is not a function raises an error
lua_call(fs, nargs, nresults) ==
    IF fs.err THEN fs
    ELSE LET top == Len(fs.stk)
             f == fs.stk[top - nargs]
             args == SubSeq(fs.stk, top - nargs + 1, top)
         IN  IF f.t # "function" THEN [fs EXCEPT !.err = TRUE]
             ELSE LET r == RunClosure(f.n, args, fs.up) IN
                  [fs EXCEPT !.stk = SubSeq(fs.stk, 1, top - nargs - 1) \o Adjust(r.results, nresults),
                             !.up = r.up, !.err = r.err,
                             !.callee = f.n, !.recv = args, !.nres = nresults]

\* call_lua_func_impl<TRet>(L, args...), lua_w.h:1075-1083, the function
\* already pushed: the states and results it can end with
call_lua_func_impl_NoPop(fs, args, R) ==
    LET s2 == lua_call(PushArgs(fs, args), Len(args), 1) IN
    IF s2.err THEN {[fs |-> s2, res |-> Failure]}
    ELSE {[fs |-> s2, res |-> r] : r \in stack_get(R, s2.stk[Len(s2.stk)])}
call_lua_func_impl(fs, args, R) ==
    LET s2 == lua_call(PushArgs(fs, args), Len(args), 1) IN
    IF s2.err THEN {[fs |-> s2, res |-> Failure]}
    ELSE {[fs |-> FsPop(s2, 1), res |-> r] : r \in stack_get(R, s2.stk[Len(s2.stk)])}

\* call_lua_func_impl_void(L, args...), lua_w.h:1086-1091
call_lua_func_impl_void_OneResult(fs, args) ==
    {[fs |-> lua_call(PushArgs(fs, args), Len(args), 1), res |-> Failure]}
call_lua_func_impl_void(fs, args) ==
    {[fs |-> lua_call(PushArgs(fs, args), Len(args), 0), res |-> Failure]}

CallImpl(fs, args, R) ==
    IF R = "void" THEN call_lua_func_impl_void(fs, args) ELSE call_lua_func_impl(fs, args, R)

NoCall == [callee |-> 0, recv |-> <<>>, nres |-> 0]

\* fn: obj[o] the block (registry key) Function object o shares, 0 when the
\* host holds no object o; made[o] (history) the closure object o was made for; reg[a] the registry slot of block a; up[c] the
\* upvalue num of counting closure c (0: not created); stk / stk0 the stack
\* after / before the last operation; op, via, args, R its inputs; res, out
\* what it returned; callee, recv, nres what lua_call did
FnIdle ==
    [obj |-> [o \in 1..MaxHandles |-> 0], reg |-> [a \in 1..MaxHandles |-> Nil],
     made |-> [o \in 1..MaxHandles |-> Nil],
     up |-> [c \in Counters |-> 0], up0 |-> [c \in Counters |-> 0],
     stk |-> <<>>, stk0 |-> <<>>, op |-> "init", via |-> 0, name |-> "", args |-> <<>>, R |-> "none",
     res |-> Failure, out |-> "returned", callee |-> 0, recv |-> <<>>, nres |-> 0, pushed |-> Nil]

InitFn == fn = FnIdle

\* the host is running: the script has run and the last operation returned
FnLive == fn.op # "init" /\ fn.out = "returned"

FreeObjs == {o \in 1..MaxHandles : fn.obj[o] = 0}

FreeBlocks == {a \in 1..MaxHandles : \A o \in 1..MaxHandles : fn.obj[o] # a}

FnClear(f) ==
    [f EXCEPT !.op = "none", !.via = 0, !.name = "", !.args = <<>>, !.R = "none", !.res = Failure,
              !.out = "returned", !.callee = 0, !.recv = <<>>, !.nres = 0, !.pushed = Nil,
              !.stk0 = f.stk, !.up0 = f.up]

\* the script has run (luaL_dostring); the host is at top level or inside a
\* closure the runtime called
FnScript ==
    /\ fn.op = "init"
    /\ \E frame \in FnFrames :
          fn' = [FnIdle EXCEPT !.op = "script", !.stk = frame, !.stk0 = frame]
    /\ UNCHANGED <<refVars, codec, call, vm, ty, objVars>>

\* get_global<Function>(L, "func"), lua_w.h:1446-1453: lua_getglobal,
\* stack_get<Function> (Function::get_form_stack, lua_w.h:1281-1289), lua_pop
FnGetGlobal ==
    /\ FnLive
    /\ FreeObjs # {} /\ FreeBlocks # {}
    /\ LET o == CHOOSE x \in FreeObjs : \A y \in FreeObjs : x <= y
           a == CHOOSE x \in FreeBlocks : \A y \in FreeBlocks : x <= y
       IN  fn' = [FnClear(fn) EXCEPT !.op = "get_global", !.via = o,
                                     !.obj[o] = a, !.reg[a] = FnGlobals.func,
                                     !.made[o] = FnGlobals.func]
    /\ UNCHANGED <<refVars, codec, call, vm, ty, objVars>>

\* closure.call<Function>(): the factory returns a new counting closure, the
\* host keeps a Function for it
FnMakeCounter ==
    /\ FnLive
    /\ FreeObjs # {} /\ FreeBlocks # {}
    /\ \E c \in Counters :
          /\ fn.up[c] = 0
          /\ \A d \in Counters : d < c => fn.up[d] # 0
          /\ LET o == CHOOSE x \in FreeObjs : \A y \in FreeObjs : x <= y
                 a == CHOOSE x \in FreeBlocks : \A y \in FreeBlocks : x <= y
             IN  fn' = [FnClear(fn) EXCEPT !.op = "make", !.via = o, !.callee = Factory,
                                           !.obj[o] = a, !.reg[a] = Closure(c),
                                           !.made[o] = Closure(c),
                                           !.up[c] = CounterStart]
    /\ UNCHANGED <<refVars, codec, call, vm, ty, objVars>>

\* Function(const Function&): the copy shares funcPtr
FnCopy ==
    /\ FnLive
    /\ FreeObjs # {}
    /\ \E src \in 1..MaxHandles :
          /\ fn.obj[src] # 0
          /\ LET o == CHOOSE x \in FreeObjs : \A y \in FreeObjs : x <= y
             IN  fn' = [FnClear(fn) EXCEPT !.op = "copy", !.via = o, !.obj[o] = fn.obj[src],
                                           !.made[o] = fn.made[src]]
    /\ UNCHANGED <<refVars, codec, call, vm, ty, objVars>>

\* the calls made so far of the counting closures
RECURSIVE CallsOf(_)
CallsOf(S) ==
    IF S = {} THEN 0
    ELSE LET c == CHOOSE x \in S : TRUE IN
         (IF fn.up[c] = 0 THEN 0 ELSE fn.up[c] - CounterStart) + CallsOf(S \ {c})

FnEnd(f0, e, out, op, via, name, args, R, pushed) ==
    [f0 EXCEPT !.op = op, !.via = via, !.name = name, !.args = args, !.R = R, !.pushed = pushed,
               !.stk0 = f0.stk, !.up0 = f0.up,
               !.stk = e.fs.stk, !.up = e.fs.up, !.res = e.res,
               !.out = IF e.fs.err THEN "lua_error" ELSE out,
               !.callee = e.fs.callee, !.recv = e.fs.recv, !.nres = e.fs.nres]

\* Function::push_to_stack, lua_w.h:1275-1278: the value lua_rawgetp pushes
\* for object o, found under the key of the block o shares
push_to_stack_OneKey(o) == fn.reg[1]
push_to_stack(o) == fn.reg[fn.obj[o]]

FnStart == [stk |-> fn.stk, up |-> fn.up, err |-> FALSE, callee |-> 0, recv |-> <<>>, nres |-> 0]

\* Function::call<TRet>(args...) / Function::call_void(args...),
\* lua_w.h:1257-1271: lua_rawgetp of the slot, then call_lua_func_impl
FnCall ==
    /\ FnLive
    /\ \E o \in 1..MaxHandles, args \in FnArgLists, R \in FnResultTypes :
          /\ fn.obj[o] # 0
          /\ fn.reg[fn.obj[o]].n \in Counters => CallsOf(Counters) < MaxCalls
          /\ \E e \in CallImpl(FsPush(FnStart, push_to_stack(o)), args, R) :
                \E out \in ResultOutcomes(R, e.res) :
                fn' = FnEnd(fn, e, out, "call", o, "", args, R, push_to_stack(o))
    /\ UNCHANGED <<refVars, codec, call, vm, ty, objVars>>

\* call_lua_function<TRet>(L, name, args...) / call_lua_function_void,
\* lua_w.h:1404-1419: lua_getglobal, then call_lua_func_impl (the calls use
\* no Function object: they are made before the host takes one)
FnCallByName ==
    /\ FnLive
    /\ FreeObjs = 1..MaxHandles
    /\ \E name \in {"func", "missing"}, args \in FnArgLists, R \in FnResultTypes :
          \E e \in CallImpl(FsPush(FnStart, FnGlobals[name]), args, R) :
              \E out \in ResultOutcomes(R, e.res) :
              fn' = FnEnd(fn, e, out, "call_lua_function", 0, name, args, R, FnGlobals[name])
    /\ UNCHANGED <<refVars, codec, call, vm, ty, objVars>>

\* the error reaches the lua_pcall the host runs under, which restores the
\* stack of its caller
FnRecover ==
    /\ fn.out = "lua_error"
    /\ fn' = [FnClear(fn) EXCEPT !.op = "recover", !.stk = fn.stk0, !.stk0 = fn.stk0]
    /\ UNCHANGED <<refVars, codec, call, vm, ty, objVars>>

NextFn == FnScript \/ FnGetGlobal \/ FnMakeCounter \/ FnCopy \/ FnCall \/ FnCallByName \/ FnRecover

\* ------------------------------------------------------------------------
\* Part VII: TypeWrapper - register_type, add_method, add_parent_type,
\* add_constructor, and the method lookup the runtime does on an instance
\* ------------------------------------------------------------------------
\* Type1 <- Type2 <- Type3 in C++
TyClasses == {"Type1", "Type2", "Type3"}

\* std::is_base_of_v<P, T>, P # T
CppBases(T) ==
    IF T = "Type3" THEN {"Type1", "Type2"} ELSE IF T = "Type2" THEN {"Type1"} ELSE {}

MethodNames == {"m"}

\* the tables registration creates: the type table of T, the metatable of
\* T's instances (registry[name]), the metatable of the type table
TT(T) == "tt:" \o T
MT(T) == "mt:" \o T
TTMT(T) == "ttmt:" \o T

TyTableIds == {TT(T) : T \in TyClasses} \cup {MT(T) : T \in TyClasses} \cup {TTMT(T) : T \in TyClasses}

Metamethods == {"__add", "__sub", "__mul", "__div", "__unm", "__eq", "__lt", "__le"}

TyFields == {"__index", "__name", "__call", "__gc", "__len", "one"} \cup Metamethods \cup MethodNames

TRef(id) == [t |-> "table", n |-> 0, s |-> id]

\* a C closure: tag names the class and the member it was made for
CFun(tag) == [t |-> "function", n |-> 0, s |-> tag]

NoFields == [f \in TyFields |-> Nil]

\* ts: stk the stack, tab[id] the fields of table id, exists the tables
\* created, meta[id] the metatable of table id ("none": it has none),
\* registry / globals by type name, err an error raised
TPush(ts, v) == IF ts.err THEN ts ELSE [ts EXCEPT !.stk = Append(@, v)]

TPop(ts, n) == IF ts.err THEN ts ELSE [ts EXCEPT !.stk = SubSeq(@, 1, Len(@) - n)]

TAt(ts, idx) == ts.stk[IF idx < 0 THEN Len(ts.stk) + 1 + idx ELSE idx]

TPushValue(ts, idx) == TPush(ts, TAt(ts, idx))

\* t[k] with metamethods: a miss in t goes on in the __index table of t's
\* metatable, and so on
RECURSIVE IndexTable(_, _, _)
IndexTable(ts, id, k) ==
    IF ts.tab[id][k] # Nil THEN ts.tab[id][k]
    ELSE IF ts.meta[id] = "none" THEN Nil
    ELSE LET h == ts.tab[ts.meta[id]]["__index"] IN
         IF h.t = "table" THEN IndexTable(ts, h.s, k) ELSE Nil

\* lua_getfield(L, idx, k)
TGetField(ts, idx, k) ==
    IF ts.err THEN ts
    ELSE IF TAt(ts, idx).t # "table" THEN [ts EXCEPT !.err = TRUE]
    ELSE TPush(ts, IndexTable(ts, TAt(ts, idx).s, k))

\* lua_setfield(L, idx, k): pops the value (no table here has __newindex)
TSetField(ts, idx, k) ==
    IF ts.err THEN ts
    ELSE IF TAt(ts, idx).t # "table" THEN [ts EXCEPT !.err = TRUE]
    ELSE [TPop(ts, 1) EXCEPT !.tab[TAt(ts, idx).s][k] = TAt(ts, -1)]

\* lua_newtable(L): id the table it allocates
TNewTable(ts, id) ==
    IF ts.err THEN ts
    ELSE TPush([ts EXCEPT !.tab[id] = NoFields, !.meta[id] = "none", !.exists = @ \cup {id}], TRef(id))

\* luaL_getmetatable(L, name): pushes registry[name]
TGetMetatable(ts, name) == TPush(ts, ts.registry[name])

\* luaL_newmetatable(L, name): pushes registry[name] if there is one, else a
\* new table with __name = name, stored in the registry
TNewMetatable(ts, name, id) ==
    IF ts.err THEN ts
    ELSE IF ts.registry[name] # Nil THEN TPush(ts, ts.registry[name])
    ELSE TPush([ts EXCEPT !.tab[id] = [NoFields EXCEPT !["__name"] = Str(name)],
                          !.meta[id] = "none", !.exists = @ \cup {id},
                          !.registry[name] = TRef(id)], TRef(id))

\* lua_setglobal(L, name): pops the value
TSetGlobal(ts, name) ==
    IF ts.err THEN ts ELSE [TPop(ts, 1) EXCEPT !.globals[name] = TAt(ts, -1)]

\* lua_setmetatable(L, idx): pops the table and makes it the metatable
TSetMeta(ts, idx) ==
    IF ts.err THEN ts ELSE [TPop(ts, 1) EXCEPT !.meta[TAt(ts, idx).s] = TAt(ts, -1).s]

\* TypeWrapper::get_type_table_metatable, lua_w.h:1580-1590: the metatable of
\* the table on top is pushed, made first if the table has none
get_type_table_metatable_AlwaysNew(ts, id) ==
    IF ts.err THEN ts
    ELSE TSetMeta(TPushValue(TNewTable(ts, id), -1), -3)
get_type_table_metatable(ts, id) ==
    IF ts.err THEN ts
    ELSE IF ts.meta[TAt(ts, -1).s] # "none" THEN TPush(ts, TRef(ts.meta[TAt(ts, -1).s]))
    ELSE TSetMeta(TPushValue(TNewTable(ts, id), -1), -3)

\* TypeWrapper<TClass>::TypeWrapper(L), lua_w.h:1593-1632
TypeWrapper_NoCheck(ts, T) ==
    LET s0 == TGetMetatable(ts, T)
        s1 == TSetGlobal(TPushValue(TNewTable(s0, TT(T)), -1), T)
        s2 == TSetField(TPushValue(TNewMetatable(s1, T, MT(T)), -2), -2, "__index")
        s3 == TSetField(TPush(s2, CFun("~" \o T)), -2, "__gc")
        s4 == TSetField(TPush(s3, Str(T)), -2, "__name")
    IN  TPop(s4, 3)
TypeWrapper(ts, T) ==
    LET s0 == TGetMetatable(ts, T) IN
    IF TAt(s0, -1).t = "table" THEN TPop(s0, 1)
    ELSE LET s1 == TSetGlobal(TPushValue(TNewTable(s0, TT(T)), -1), T)
             s2 == TSetField(TPushValue(TNewMetatable(s1, T, MT(T)), -2), -2, "__index")
             s3 == TSetField(TPush(s2, CFun("~" \o T)), -2, "__gc")
             s4 == TSetField(TPush(s3, Str(T)), -2, "__name")
         IN  TPop(s4, 3)

\* TypeWrapper::add_method(name, methodPtr), lua_w.h:1830-1847: the closure
\* over the member pointer goes into the type table
add_method(ts, T, name) ==
    LET s1 == TGetField(TGetMetatable(ts, T), -1, "__index")
        s2 == TSetField(TPush(s1, CFun(T \o "::" \o name)), -2, name)
    IN  TPop(s2, 2)

\* TypeWrapper::add_constructor_impl, lua_w.h:1571-1579
add_constructor_impl(ts, T) ==
    LET s1 == TGetField(TGetMetatable(ts, T), -1, "__index")
        s2 == get_type_table_metatable(s1, TTMT(T))
        s3 == TSetField(TPush(s2, CFun(T \o "::" \o T)), -2, "__call")
    IN  TPop(s3, 3)

\* TypeWrapper::add_parent_type<P>(), lua_w.h:1878-1895
add_parent_type_ParentMetatable(ts, T, P) ==
    LET s1 == TGetField(TGetMetatable(ts, T), -1, "__index")
        s2 == get_type_table_metatable(s1, TTMT(T))
        s3 == TGetMetatable(s2, P)
        s4 == TSetField(s3, -2, "__index")
    IN  TPop(s4, 3)
add_parent_type(ts, T, P) ==
    LET s1 == TGetField(TGetMetatable(ts, T), -1, "__index")
        s2 == get_type_table_metatable(s1, TTMT(T))
        s3 == TGetField(TGetMetatable(s2, P), -1, "__index")
        s4 == TSetField(s3, -3, "__index")
    IN  TPop(s4, 4)

\* obj.name on an instance of T (a userdata whose metatable is registry[T]):
\* the runtime indexes the __index table of the metatable
MethodLookup(ts, T, name) ==
    LET h == ts.tab[MT(T)]["__index"] IN
    IF h.t = "table" THEN IndexTable(ts, h.s, name) ELSE Nil

TyState0 ==
    [stk |-> <<>>, tab |-> [id \in TyTableIds |-> NoFields], exists |-> {},
     meta |-> [id \in TyTableIds |-> "none"],
     registry |-> [T \in TyClasses |-> Nil], globals |-> [T \in TyClasses |-> Nil],
     err |-> FALSE]

\* ty: ts the runtime state, op / T / P / name the last operation and its
\* arguments, res the closure the last lookup found, own[T][name] (history)
\* whether add_method has been called for T and name, parent[T] (history) the
\* last add_parent_type of T ("none": never called)
TyIdle ==
    [ts |-> TyState0, op |-> "init", T |-> "none", P |-> "none", name |-> "none", res |-> Nil,
     again |-> FALSE,
     ext |-> [ops |-> {}, ctor |-> "none", args |-> <<>>, ans |-> FALSE],
     own |-> [T \in TyClasses |-> [n \in MethodNames |-> FALSE]],
     parent |-> [T \in TyClasses |-> "none"]]

InitTy == ty = TyIdle

Registered(T) == ty.ts.registry[T] # Nil

\* the stack the host calls from
TyFrames == {<<>>, <<Num(22)>>}

\* luaL_newstate
TyOpen ==
    /\ ty.op = "init"
    /\ \E frame \in TyFrames : ty' = [TyIdle EXCEPT !.op = "open", !.ts.stk = frame]
    /\ UNCHANGED <<refVars, codec, call, vm, fn, objVars>>

\* register_type<T>(L), lua_w.h:1900-1908
TyRegister ==
    /\ ty.op # "init"
    /\ \E T \in TyClasses :
          ty' = [ty EXCEPT !.op = "register_type", !.T = T, !.P = "none", !.name = "none",
                           !.res = Nil, !.again = Registered(T),
                           !.ts = TypeWrapper(ty.ts, T)]
    /\ UNCHANGED <<refVars, codec, call, vm, fn, objVars>>

TyAddMethod ==
    /\ ty.op # "init"
    /\ \E T \in TyClasses, name \in MethodNames :
          /\ Registered(T)
          /\ ty' = [ty EXCEPT !.op = "add_method", !.T = T, !.P = "none", !.name = name,
                              !.res = Nil, !.again = FALSE,
                              !.ts = add_method(ty.ts, T, name), !.own[T][name] = TRUE]
    /\ UNCHANGED <<refVars, codec, call, vm, fn, objVars>>

TyAddConstructor ==
    /\ ty.op # "init"
    /\ \E T \in TyClasses :
          /\ Registered(T)
          /\ ty' = [ty EXCEPT !.op = "add_constructor", !.T = T, !.P = "none", !.name = "none",
                              !.res = Nil, !.again = FALSE,
                              !.ts = add_constructor_impl(ty.ts, T)]
    /\ UNCHANGED <<refVars, codec, call, vm, fn, objVars>>

TyAddParent ==
    /\ ty.op # "init"
    /\ \E T \in TyClasses :
          \E P \in CppBases(T) :
              /\ Registered(T) /\ Registered(P)
              /\ ty' = [ty EXCEPT !.op = "add_parent_type", !.T = T, !.P = P, !.name = "none",
                                  !.res = Nil, !.again = FALSE,
                                  !.ts = add_parent_type(ty.ts, T, P), !.parent[T] = P]
    /\ UNCHANGED <<refVars, codec, call, vm, fn, objVars>>

\* a script evaluates obj.name on an instance of T
TyLookup ==
    /\ ty.op # "init"
    /\ \E T \in TyClasses, name \in MethodNames :
          /\ Registered(T)
          /\ ty' = [ty EXCEPT !.op = "lookup", !.T = T, !.P = "none", !.name = name,
                              !.again = FALSE,
                              !.res = MethodLookup(ty.ts, T, name)]
    /\ UNCHANGED <<refVars, codec, call, vm, fn, objVars>>

NextTy == TyOpen \/ TyRegister \/ TyAddMethod \/ TyAddConstructor \/ TyAddParent \/ TyLookup

\* ------------------------------------------------------------------------
\* Part VIII: TypeWrapper - the extension calls on one type (Type2, whose
\* C++ base is Type1) and the global function instanceof
\* ------------------------------------------------------------------------
\* the C++ operators add_detected_operators looks for
Operators == {"+", "-", "*", "/", "neg", "==", "<", "<="}

\* the operator sets of the types a program binds; a type with < and
\* without <= does not build, since the closure made under has_lt_v uses <=
OperatorSets == {{}, {"==", "+"}, {"<="}, {"<", "<="}, Operators}

\* has_add_v .. has_unary_minus_v, lua_w.h:1495-1533
has_add_v(ops) == "+" \in ops
has_sub_v(ops) == "-" \in ops
has_mult_v(ops) == "*" \in ops
has_div_v(ops) == "/" \in ops
has_unary_minus_v(ops) == "neg" \in ops
has_eq_v(ops) == "==" \in ops
has_lt_v(ops) == "<" \in ops
has_lte_v(ops) == "<=" \in ops

\* lua_pushcfunction, lua_setfield(L, -2, m) under "if constexpr (cond)"
InstallIf(ts, cond, T, m) ==
    IF cond THEN TSetField(TPush(ts, CFun(T \o "::" \o m)), -2, m) ELSE ts

\* TypeWrapper::add_detected_operators, lua_w.h:1692-1817, for a TClass whose
\* operators are ops
add_detected_operators(ts, T, ops) ==
    LET s0 == TGetMetatable(ts, T)
        s1 == InstallIf(s0, has_add_v(ops), T, "__add")
        s2 == InstallIf(s1, has_sub_v(ops), T, "__sub")
        s3 == InstallIf(s2, has_mult_v(ops), T, "__mul")
        s4 == InstallIf(s3, has_div_v(ops), T, "__div")
        s5 == InstallIf(s4, has_unary_minus_v(ops), T, "__unm")
        s6 == InstallIf(s5, has_eq_v(ops), T, "__eq")
        s7 == InstallIf(s6, has_lt_v(ops), T, "__lt")
        s8 == InstallIf(s7, has_lt_v(ops), T, "__le")
    IN  TPop(s8, 1)

\* TypeWrapper::add_metamethod(methodName, func), lua_w.h:1820-1827
add_metamethod(ts, T, name) ==
    TPop(TSetField(TPush(TGetMetatable(ts, T), CFun(T \o "::" \o name)), -2, name), 1)

\* TypeWrapper::add_static_method(name, methodPtr), lua_w.h:1865-1875
add_static_method(ts, T, name) ==
    LET s1 == TGetField(TGetMetatable(ts, T), -1, "__index")
        s2 == TSetField(TPush(s1, CFun(T \o "." \o name)), -2, name)
    IN  TPop(s2, 2)

\* add_constructor<TArgs...> / add_custom_and_default_constructors<TArgs...>,
\* lua_w.h:1636-1688: add_constructor_impl with the closure of that kind
CtorKinds == {"custom", "custom_and_default"}

add_constructor_kind_FreshMetatable(ts, T, kind) ==
    LET s1 == TGetField(TGetMetatable(ts, T), -1, "__index")
        s2 == TSetMeta(TPushValue(TNewTable(s1, TTMT(T)), -1), -3)
        s3 == TSetField(TPush(s2, CFun(T \o "::" \o kind)), -2, "__call")
    IN  TPop(s3, 3)
add_constructor_kind(ts, T, kind) ==
    LET s1 == TGetField(TGetMetatable(ts, T), -1, "__index")
        s2 == get_type_table_metatable(s1, TTMT(T))
        s3 == TSetField(TPush(s2, CFun(T \o "::" \o kind)), -2, "__call")
    IN  TPop(s3, 3)

\* the type the extension calls are made on, and its parent
Subject == "Type2"
SubjectParent == "Type1"

\* the extension calls of a program on Subject
ExtCalls ==
    {[f |-> "add_parent_type", name |-> "none"], [f |-> "add_method", name |-> "m"],
     [f |-> "add_static_method", name |-> "one"], [f |-> "add_metamethod", name |-> "__len"],
     [f |-> "add_detected_operators", name |-> "none"]}
    \cup {[f |-> "add_constructor", name |-> kind] : kind \in CtorKinds}

\* the tables after extension call c on Subject, for a class with operators ops
ApplyExt(ts, c, ops) ==
    CASE c.f = "add_parent_type" -> add_parent_type(ts, Subject, SubjectParent)
      [] c.f = "add_method" -> add_method(ts, Subject, c.name)
      [] c.f = "add_static_method" -> add_static_method(ts, Subject, c.name)
      [] c.f = "add_metamethod" -> add_metamethod(ts, Subject, c.name)
      [] c.f = "add_detected_operators" -> add_detected_operators(ts, Subject, ops)
      [] c.f = "add_constructor" -> add_constructor_kind(ts, Subject, c.name)

\* the values a script passes to instanceof
ExtInstance(T) == [t |-> "userdata", n |-> 1, s |-> T]

InstanceofArgs == {ExtInstance("Type1"), ExtInstance("Type2"), Num(22)}

\* luaL_getmetafield(L, 1, "__index") on x: the __index field of x's
\* metatable, nil when x has no metatable or the field is absent
getmetafield_index(ts, x) ==
    IF x.t = "userdata" /\ ts.registry[x.s] # Nil THEN ts.tab[MT(x.s)]["__index"]
    ELSE IF x.t = "table" /\ ts.meta[x.s] # "none" THEN ts.tab[ts.meta[x.s]]["__index"]
    ELSE Nil

\* the closure of register_instanceof_function, lua_w.h:1921-1930, called
\* with args: the boolean it returns (on top of the stack)
instanceof_closure(ts, args) ==
    LET f == getmetafield_index(ts, args[1]) IN
    IF f # Nil
    THEN LET stk == args \o <<f>> IN stk[2] = stk[3]
    ELSE FALSE

\* ty.ext: ops the operators of Subject's C++ class, ctor (history) the kind
\* of the last constructor registration, args / ans the arguments and the
\* answer of the last instanceof call
\* luaL_newstate, and the operators the program's Type2 has
ExtOpen ==
    /\ ty.op = "init"
    /\ \E ops \in OperatorSets :
          ty' = [TyIdle EXCEPT !.op = "open", !.ts.stk = <<Num(22)>>, !.ext.ops = ops]
    /\ UNCHANGED <<refVars, codec, call, vm, fn, objVars>>

ExtDone(op, name, ts) ==
    [ty EXCEPT !.op = op, !.T = Subject, !.P = "none", !.name = name, !.res = Nil,
               !.again = FALSE, !.ts = ts, !.ext.args = <<>>, !.ext.ans = FALSE]

ExtRegister ==
    /\ ty.op # "init"
    /\ \E T \in {Subject, SubjectParent} :
          ty' = [ExtDone("register_type", "none", TypeWrapper(ty.ts, T)) EXCEPT
                    !.T = T, !.again = Registered(T)]
    /\ UNCHANGED <<refVars, codec, call, vm, fn, objVars>>

ExtAddMethod ==
    /\ ty.op # "init" /\ Registered(Subject)
    /\ ty' = [ExtDone("add_method", "m", add_method(ty.ts, Subject, "m")) EXCEPT
                 !.own[Subject]["m"] = TRUE]
    /\ UNCHANGED <<refVars, codec, call, vm, fn, objVars>>

ExtAddStaticMethod ==
    /\ ty.op # "init" /\ Registered(Subject)
    /\ ty' = ExtDone("add_static_method", "one", add_static_method(ty.ts, Subject, "one"))
    /\ UNCHANGED <<refVars, codec, call, vm, fn, objVars>>

ExtAddMetamethod ==
    /\ ty.op # "init" /\ Registered(Subject)
    /\ ty' = ExtDone("add_metamethod", "__len", add_metamethod(ty.ts, Subject, "__len"))
    /\ UNCHANGED <<refVars, codec, call, vm, fn, objVars>>

ExtAddDetectedOperators ==
    /\ ty.op # "init" /\ Registered(Subject)
    /\ ty' = ExtDone("add_detected_operators", "none",
                     add_detected_operators(ty.ts, Subject, ty.ext.ops))
    /\ UNCHANGED <<refVars, codec, call, vm, fn, objVars>>

ExtAddConstructor ==
    /\ ty.op # "init" /\ Registered(Subject)
    /\ \E kind \in CtorKinds :
          ty' = [ExtDone("add_constructor", kind, add_constructor_kind(ty.ts, Subject, kind)) EXCEPT
                    !.ext.ctor = kind, !.again = (ty.ext.ctor # "none")]
    /\ UNCHANGED <<refVars, codec, call, vm, fn, objVars>>

ExtAddParent ==
    /\ ty.op # "init" /\ Registered(Subject) /\ Registered(SubjectParent)
    /\ ty' = [ExtDone("add_parent_type", "none", add_parent_type(ty.ts, Subject, SubjectParent)) EXCEPT
                 !.P = SubjectParent, !.parent[Subject] = SubjectParent]
    /\ UNCHANGED <<refVars, codec, call, vm, fn, objVars>>

\* a script calls instanceof(obj, T) or instanceof(obj, T, extra)
ExtInstanceof ==
    /\ ty.op # "init"
    /\ \E obj \in InstanceofArgs, T \in {TRef(TT("Type1")), TRef(TT("Type2"))},
          rest \in {<<>>, <<TRef(TT("Type2"))>>} :
          LET args == <<obj, T>> \o rest IN
          ty' = [ExtDone("instanceof", "none", ty.ts) EXCEPT
                    !.ext.args = args, !.ext.ans = instanceof_closure(ty.ts, args)]
    /\ UNCHANGED <<refVars, codec, call, vm, fn, objVars>>

NextExt ==
    \/ ExtOpen \/ ExtRegister \/ ExtAddMethod \/ ExtAddStaticMethod \/ ExtAddMetamethod
    \/ ExtAddDetectedOperators \/ ExtAddConstructor \/ ExtAddParent \/ ExtInstanceof

\* ------------------------------------------------------------------------
\* Part IX: pointers pushed as light userdata and the metatable they show
\* ------------------------------------------------------------------------
\* largest number of pointers on the stack
MaxPtrs == 3

\* the pointer branch of stack_push in the three revisions of the header
HeaderRevisions == {"part_000", "lua_w.h:1", "lua_w.h:924"}

\* pointee types: classes with lua_type_name(), and one without
PointeeTypes == {"Type1", "Type2", "int"}

has_lua_type_name_v(T) == T \in {"Type1", "Type2"}

\* lua_setmetatable on a light userdata: light userdata have no metatable of
\* their own, the runtime keeps one metatable for all of them (Lua manual
\* 2.4), so the call replaces the metatable every light userdata shows
\* stack_push<T*>(L, value): the metatable of light userdata after the push,
\* shared being the one before and reg the registered type names
stack_push_pointer(rev, shared, reg, T) ==
    CASE rev = "lua_w.h:924" ->
            \* lua_pushlightuserdata(L, (void*)value), lua_w.h:1309-1310
            shared
      [] rev = "lua_w.h:1" ->
            \* lua_pushlightuserdata; luaL_setmetatable(L, name), lua_w.h:319-325:
            \* the metatable registered under name, nil if there is none
            IF has_lua_type_name_v(T) THEN (IF T \in reg THEN T ELSE "none") ELSE shared
      [] rev = "part_000" ->
            \* luaL_getmetatable; lua_setmetatable only if a table, part_000:303-318
            IF has_lua_type_name_v(T) /\ T \in reg THEN T ELSE shared

\* light: rev the header revision built against, reg the registered types,
\* shared the metatable of light userdata, ptrs the pointee types of the
\* light userdata on the stack (bottom first), T the type last pushed
TagIdle == [rev |-> "lua_w.h:924", reg |-> {}, shared |-> "none", ptrs |-> <<>>,
            op |-> "init", T |-> "none"]

InitTag == light = TagIdle

TagOpen ==
    /\ light.op = "init"
    /\ \E rev \in HeaderRevisions : light' = [TagIdle EXCEPT !.rev = rev, !.op = "open"]
    /\ UNCHANGED <<refVars, codec, call, vm, fn, ty, heap>>

\* register_type<T>(L): luaL_newmetatable(L, T::lua_type_name())
TagRegister ==
    /\ light.op # "init"
    /\ \E T \in {"Type1", "Type2"} :
          /\ T \notin light.reg
          /\ light' = [light EXCEPT !.reg = @ \cup {T}, !.op = "register_type", !.T = T]
    /\ UNCHANGED <<refVars, codec, call, vm, fn, ty, heap>>

\* stack_push(L, ptr) for ptr of type T*
TagPushPointer ==
    /\ light.op # "init"
    /\ Len(light.ptrs) < MaxPtrs
    /\ \E T \in PointeeTypes :
          light' = [light EXCEPT !.ptrs = Append(@, T), !.op = "push_pointer", !.T = T,
                             !.shared = stack_push_pointer(light.rev, light.shared, light.reg, T)]
    /\ UNCHANGED <<refVars, codec, call, vm, fn, ty, heap>>

\* lua_pop(L, 1)
TagPop ==
    /\ light.op # "init"
    /\ light.ptrs # <<>>
    /\ light' = [light EXCEPT !.ptrs = SubSeq(@, 1, Len(@) - 1), !.op = "pop", !.T = "none"]
    /\ UNCHANGED <<refVars, codec, call, vm, fn, ty, heap>>

NextTag == TagOpen \/ TagRegister \/ TagPushPointer \/ TagPop

\* ------------------------------------------------------------------------
\* Part X: instances of a registered class Vec2 {x, y} - blocks made by the
\* constructor closure and by stack_push of a copy, a host object pushed by
\* pointer, collection by the runtime, member accessors
\* ------------------------------------------------------------------------
\* number of userdata blocks the runtime can allocate
MaxBlocks == 2

FieldValues == {0, 4}

MemberNames == {"x", "y"}

\* a userdata block: st "free" (not allocated), "raw" (storage from
\* lua_newuserdata holding no object), "live" (holds an object) or
\* "collected"; tag its metatable; x, y the object's fields; built (history)
\* whether an object was ever constructed in it, dtor (history) how often
\* ~TClass has run on it
FreeBlock == [st |-> "free", tag |-> "none", x |-> 0, y |-> 0, built |-> FALSE, dtor |-> 0]

\* lua_newuserdata(L, sizeof(TClass))
lua_newuserdata == [FreeBlock EXCEPT !.st = "raw"]

\* new(ptr) TClass{x, y}
placement_new(blk, x, y) == [blk EXCEPT !.st = "live", !.x = x, !.y = y, !.built = TRUE]

\* luaL_setmetatable(L, TClass::lua_type_name()), the type being registered
luaL_setmetatable(blk) == [blk EXCEPT !.tag = "Vec2"]

\* the closure of add_constructor<double, double>, lua_w.h:1640-1655: the
\* block it leaves in the runtime when the arguments can (ok) or cannot be
\* extracted; value() of an empty Result throws before the placement new and
\* the handler raises the runtime error
constructor_closure_TagFirst(ok, x, y) ==
    IF ok THEN luaL_setmetatable(placement_new(lua_newuserdata, x, y))
    ELSE luaL_setmetatable(lua_newuserdata)
constructor_closure(ok, x, y) ==
    IF ok THEN luaL_setmetatable(placement_new(lua_newuserdata, x, y))
    ELSE lua_newuserdata

\* the object branch of stack_push, lua_w.h:1314-1321: a copy of value
stack_push_copy(value) == luaL_setmetatable(placement_new(lua_newuserdata, value.x, value.y))

\* the runtime collects an unreachable block: the __gc field of its metatable
\* is called if the block has a metatable and the metatable has the field,
\* which TypeWrapper installs for a class that is not trivially destructible
\* (lua_w.h:1615-1625: ptr->~TClass())
collect(blk, nontrivial) ==
    [blk EXCEPT !.st = "collected", !.x = 0, !.y = 0,
                !.dtor = IF blk.tag = "Vec2" /\ nontrivial THEN @ + 1 ELSE @]

\* the closure add_member(name, &TClass::field) installs, called as
\* obj:name(args): no extra argument reads the field, one extra argument
\* writes it
member_accessor_WritesAll(blk, name, args) ==
    IF Len(args) = 0 THEN [blk |-> blk, ret |-> <<blk[name]>>]
    ELSE [blk |-> [blk EXCEPT !.x = args[1], !.y = args[1]], ret |-> <<>>]
member_accessor(blk, name, args) ==
    IF Len(args) = 0 THEN [blk |-> blk, ret |-> <<blk[name]>>]
    ELSE [blk |-> [blk EXCEPT ![name] = args[1]], ret |-> <<>>]

\* the host's own Vec2, which it pushes by value and by pointer
HostObject == [x |-> 4, y |-> 4]

\* heap: nontrivial whether Vec2 is not trivially destructible, blocks the
\* userdata blocks, ptr whether a light userdata with the address of the host
\* object is held by the runtime, hostDtor (history) how often the runtime
\* has run ~TClass on the host object, op / b / name / args / ret the last
\* operation, the block it acted on and what it returned
HeapIdle ==
    [nontrivial |-> TRUE, blocks |-> [b \in 1..MaxBlocks |-> FreeBlock], ptr |-> FALSE,
     hostDtor |-> 0, op |-> "init", b |-> 0, name |-> "none", args |-> <<>>, ret |-> <<>>]

InitHeap == heap = HeapIdle

HeapDone(op, b, blk) ==
    [heap EXCEPT !.op = op, !.b = b, !.name = "none", !.args = <<>>, !.ret = <<>>,
                 !.blocks[b] = blk]

\* register_type<Vec2>(L) with its constructor and members
HeapOpen ==
    /\ heap.op = "init"
    /\ \E nontrivial \in BOOLEAN :
          heap' = [HeapIdle EXCEPT !.nontrivial = nontrivial, !.op = "open"]
    /\ UNCHANGED <<refVars, codec, call, vm, fn, ty, light>>

\* the first block not allocated
FreeSlot == CHOOSE b \in 1..MaxBlocks :
                /\ heap.blocks[b].st = "free"
                /\ \A c \in 1..(b - 1) : heap.blocks[c].st # "free"

\* a script calls Vec2(...)
HeapConstruct ==
    /\ heap.op # "init"
    /\ \E b \in 1..MaxBlocks : heap.blocks[b].st = "free"
    /\ \E ok \in BOOLEAN : \E x, y \in FieldValues \ {0} :
          heap' = [HeapDone(IF ok THEN "construct" ELSE "construct_failed", FreeSlot,
                            constructor_closure(ok, x, y)) EXCEPT
                      !.args = IF ok THEN <<x, y>> ELSE <<>>]
    /\ UNCHANGED <<refVars, codec, call, vm, fn, ty, light>>

\* stack_push(L, value) / set_global(L, name, value) with the host's Vec2
HeapPushCopy ==
    /\ heap.op # "init"
    /\ \E b \in 1..MaxBlocks : heap.blocks[b].st = "free"
    /\ heap' = HeapDone("push_copy", FreeSlot, stack_push_copy(HostObject))
    /\ UNCHANGED <<refVars, codec, call, vm, fn, ty, light>>

\* stack_push(L, &value), lua_w.h:1309-1310: lua_pushlightuserdata
HeapPushPointer ==
    /\ heap.op # "init"
    /\ ~heap.ptr
    /\ heap' = [heap EXCEPT !.ptr = TRUE, !.op = "push_pointer", !.b = 0, !.name = "none",
                            !.args = <<>>, !.ret = <<>>]
    /\ UNCHANGED <<refVars, codec, call, vm, fn, ty, light>>

\* a block has become unreachable and a collection cycle (or lua_close) runs
HeapCollect ==
    /\ heap.op # "init"
    /\ \E b \in 1..MaxBlocks :
          /\ heap.blocks[b].st \in {"raw", "live"}
          /\ heap' = HeapDone("collect", b, collect(heap.blocks[b], heap.nontrivial))
    /\ UNCHANGED <<refVars, codec, call, vm, fn, ty, light>>

\* the light userdata has become unreachable: a light userdata is a value,
\* the runtime collects nothing and calls no __gc for it
HeapDropPointer ==
    /\ heap.op # "init"
    /\ heap.ptr
    /\ heap' = [heap EXCEPT !.ptr = FALSE, !.op = "drop_pointer", !.b = 0, !.name = "none",
                            !.args = <<>>, !.ret = <<>>]
    /\ UNCHANGED <<refVars, codec, call, vm, fn, ty, light>>

\* a script calls obj:x(), obj:x(v), obj:y() or obj:y(v) on an instance
HeapMember ==
    /\ heap.op # "init"
    /\ \E b \in 1..MaxBlocks :
          /\ heap.blocks[b].st = "live" /\ heap.blocks[b].tag = "Vec2"
          /\ \E name \in MemberNames : \E args \in {<<>>} \cup {<<v>> : v \in FieldValues} :
                LET r == member_accessor(heap.blocks[b], name, args) IN
                heap' = [HeapDone("member", b, r.blk) EXCEPT
                            !.name = name, !.args = args, !.ret = r.ret]
    /\ UNCHANGED <<refVars, codec, call, vm, fn, ty, light>>

NextHeap ==
    \/ HeapOpen \/ HeapConstruct \/ HeapPushCopy \/ HeapPushPointer
    \/ HeapCollect \/ HeapDropPointer \/ HeapMember

\* ------------------------------------------------------------------------
\* Specifications
\* ------------------------------------------------------------------------

Init ==
    /\ InitRefs /\ InitCodec /\ InitCall /\ InitVm /\ InitFn /\ InitTy
    /\ InitTag /\ InitHeap

Spec == Init /\ [][Next]_vars

SpecCross == Init /\ [][NextCross]_vars

SpecCodec == Init /\ [][NextCodec]_vars

SpecCall == Init /\ [][NextCall]_vars

SpecPtr == Init /\ [][NextPtr]_vars

SpecVm == Init /\ [][NextVm]_vars

SpecFn == Init /\ [][NextFn]_vars

SpecTy == Init /\ [][NextTy]_vars

SpecExt == Init /\ [][NextExt]_vars

SpecTag == Init /\ [][NextTag]_vars

SpecHeap == Init /\ [][NextHeap]_vars

\* ------------------------------------------------------------------------
\* Properties of Part I
\* ------------------------------------------------------------------------

Top(L) == stack[L][Len(stack[L])]

\* the value in the registry slot of the block at a, in the instance it stores
Slot(reg, a) == lua_rawgetp(reg, refs[a].L, get_object_id(a))

C1_SlotHoldsValue ==
    \A a \in Addrs :
        (refs[a].count > 0 /\ refs[a].L \notin closed) =>
            /\ target[a].t \in {"table", "function"}
            /\ Slot(registry, a) = target[a]

C1_Step ==
    \A a \in Addrs :
        (refs[a].count > 0 /\ refs[a].L \notin closed /\ last'.a = a) =>
            /\ (last'.op = "push_to_stack" /\ last'.L = refs[a].L) =>
                   stack'[last'.L] = Append(stack[last'.L], target[a])
            /\ (last'.op = "drop" /\ refs[a].count > 1) =>
                   /\ registry' = registry
                   /\ refs'[a].count = refs[a].count - 1
            /\ (last'.op = "drop" /\ refs[a].count = 1) =>
                   /\ refs'[a].count = 0
                   /\ lua_rawgetp(registry', refs[a].L, get_object_id(a)) = Nil

\* C1: while at least one copy of a Table / Function object is alive (and its
\* instance is open) the registry slot under the key of their shared block
\* holds the table / function the object was created for, so push_to_stack
\* on the same instance pushes that value; destroying a copy that is not the
\* last leaves the registry unchanged; destroying the last copy sets the slot
\* to nil.
C1_HandleLifetime == []C1_SlotHoldsValue /\ [][C1_Step]_vars

\* a copy has been destroyed, another copy is alive, the slot still holds the value
C1_Witness ==
    /\ last.op = "drop"
    /\ refs[last.a].count > 0
    /\ last.L \notin closed
    /\ Slot(registry, last.a) = target[last.a]
    /\ target[last.a].t = "table"

C2_DistinctKeys ==
    \A a, b \in Addrs :
        (a # b /\ refs[a].count > 0 /\ refs[b].count > 0) =>
            get_object_id(a) # get_object_id(b)

C2_Step ==
    \A b \in Addrs :
        (/\ refs[b].count > 0
         /\ refs[b].L \notin closed
         /\ last'.op \in {"get_form_stack", "set", "drop"}
         /\ last'.a # b) =>
            /\ refs'[b] = refs[b]
            /\ lua_rawgetp(registry', refs[b].L, get_object_id(b)) = target[b]

\* C2: two live blocks (objects that are not copies of each other) never have
\* the same registry key, and creating an object, writing through one or
\* destroying one leaves the slot of every other live object holding that
\* object's value, also when the new object's block sits at an address at
\* which a block was destroyed before.
C2_KeysNeverCollide == []C2_DistinctKeys /\ [][C2_Step]_vars

\* an object has been created at a reused address while another object, for
\* a different value, is alive and still reaches its value
C2_Witness ==
    /\ last.op = "get_form_stack"
    /\ last.reused
    /\ \E b \in Addrs \ {last.a} :
          /\ refs[b].count > 0
          /\ target[b] # target[last.a]
          /\ Slot(registry, b) = target[b]
          /\ Slot(registry, last.a) = target[last.a]

C3_Step ==
    \A a \in Addrs : \A L \in Instances :
        (last'.op = "push_to_stack" /\ last'.a = a /\ last'.L = L) =>
            /\ registry' = registry
            /\ \A M \in Instances \ {L} : stack'[M] = stack[M]
            /\ IF L = refs[a].L
               THEN stack'[L] = Append(stack[L], target[a])
               ELSE /\ stack'[L] = Append(stack[L], Nil)
                    /\ refs[a].L \notin accessed'

\* C3: push_to_stack(L2) on an object created against instance L1 # L2
\* pushes exactly one nil on L2 and uses neither the stack nor the registry
\* of L1; push_to_stack(L1) pushes the referenced value on L1.
C3_CrossInstancePush == [][C3_Step]_vars

\* an object of one instance has been pushed on the other: nil is on top
C3_Witness ==
    /\ last.op = "push_to_stack"
    /\ refs[last.a].count > 0
    /\ refs[last.a].L # last.L
    /\ target[last.a].t = "table"
    /\ Top(last.L) = Nil

\* C4: no operation of an object (set, push_to_stack, destruction of the last
\* copy) uses the stack or the registry of an instance after lua_close.
C4_NoUseAfterClose == accessed \cap closed = {}

\* the last copy of an object has been destroyed after lua_close of its instance
C4_Witness ==
    /\ last.op = "drop"
    /\ last.L \in closed
    /\ last.L \in accessed
    /\ fault = "use_after_close"

\* C30: a Result<T> holds a live T in its storage exactly when has_value();
\* an empty Result of a handle type (Table, Function) is made, handed back
\* and destroyed without destroying a T it does not hold: stack_get of a
\* handle type on a value of another kind leaves the program in defined
\* behaviour, with every reference count and registry slot as it was.
C30_Step ==
    last'.op = "get_mismatch" => (fault' = "none" /\ refs' = refs /\ registry' = registry)

C30_ResultValidity == [][C30_Step]_vars

\* stack_get<Table> on a slot that holds no table, while a handle is alive:
\* ~Result has run ~Table on storage that holds no Table
C30_Witness ==
    /\ last.op = "get_mismatch"
    /\ fault = "invalid_result"
    /\ \E a \in DOMAIN refs : refs[a].count > 0

\* ------------------------------------------------------------------------
\* Properties of Part II
\* ------------------------------------------------------------------------

ScalarTypes == {"bool", "long long", "double", "const char*", "char*"}

\* operator== of the C++ values (std::strcmp for strings); NaN equals nothing
CppEquals(a, b) == a = b /\ ~(a.T = "double" /\ a.s = "nan")

\* a value has been pushed by the host and read back as the same type
RoundTripDone ==
    /\ codec.op = "get"
    /\ codec.src # NoValue
    /\ codec.T = codec.src.T
    /\ codec.T \in ScalarTypes

\* C5 as stated: every scalar value (boolean, number, C string) pushed with
\* stack_push / set_global and read back with stack_get<T> / get_global<T>
\* of the same type comes back present and equal.
C5_RoundTripAll ==
    RoundTripDone => (codec.res.valid /\ CppEquals(codec.res.value, codec.src))

\* the values lua_Number carries without change
ExactInLuaNumber(v) ==
    \/ v.T \in {"bool", "const char*"}
    \/ v.T = "long long" /\ RoundToDouble(v.n) = v.n
    \/ v.T = "double" /\ v.s # "nan"

\* C5 amended: a boolean, a C string read back as const char*, and a number
\* that static_cast<lua_Number> represents exactly (and is not NaN) comes
\* back present and equal.
C5_RoundTripExact ==
    (RoundTripDone /\ ExactInLuaNumber(codec.src)) =>
        (codec.res.valid /\ CppEquals(codec.res.value, codec.src))

\* 22 set as a global and read back as 22
C5_Witness ==
    /\ RoundTripDone
    /\ codec.via = "global"
    /\ codec.src = CV("long long", 22, "")
    /\ codec.res = Ok(CV("long long", 22, ""))

\* the kind of runtime value a type is read from
ExpectedKind(T) ==
    CASE T = "bool" -> "bool"
      [] T \in {"long long", "double"} -> "number"
      [] T \in {"const char*", "char*"} -> "string"
      [] T = "Table" -> "table"
      [] T = "Function" -> "function"
      [] OTHER -> T

Mismatch(T, x) ==
    \/ x = Nil
    \/ T = "bool" /\ x.t # "boolean"
    \/ T = "Table" /\ x.t # "table"
    \/ T = "Function" /\ x.t # "function"

HasTag(r, k) == "tag" \in DOMAIN r /\ r.tag = k

\* C6: stack_get<T> / get_global<T> on a value that is not of T's kind (or
\* on nil / an absent global) returns no value, and the failure carries the
\* expected-kind tag of T ("bool" for bool).
C6_TypedFailure ==
    (codec.op = "get" /\ Mismatch(codec.T, codec.slot)) =>
        (~codec.res.valid /\ HasTag(codec.res, ExpectedKind(codec.T)))

\* a bool has been asked of a global holding a number: an empty Result
C6_Witness ==
    /\ codec.op = "get"
    /\ codec.T = "bool"
    /\ codec.slot = Num(22)
    /\ ~codec.res.valid

\* C29: stack_get<T> / get_global<T> leaves the value of the slot it reads,
\* type and content, as it was, whether it returns a value or not (a number
\* slot read as a C string is still a number).
C29_Step == codec'.op = "get" => codec'.slot = codec.slot

C29_StackGetReadOnly == [][C29_Step]_vars

\* 22 pushed as a number and read with stack_get<const char*>: the slot now
\* holds the string "22.0"
C29_Witness ==
    /\ codec.op = "get" /\ codec.via = "stack" /\ codec.T = "const char*"
    /\ codec.src = CV("long long", 22, "")
    /\ codec.res = Ok(CV("const char*", 0, "22.0"))
    /\ codec.slot = Str("22.0")

\* ------------------------------------------------------------------------
\* Properties of Part III
\* ------------------------------------------------------------------------

\* C7: when the runtime calls a closure made by register_function /
\* wrap_function, the host function runs if and only if every declared
\* parameter was extracted, left to right, from stack positions 1..n; if an
\* extraction fails the host function does not run and an error is raised
\* through the runtime's error mechanism.
C7_AllOrNothing ==
    call.kind = "function" =>
        /\ call.invoked <=> call.failed = 0
        /\ call.failed # 0 => call.outcome = "lua_error"

\* f(lua_w::Table) has been called with a number: the process is gone
C7_Witness ==
    /\ call.kind = "function"
    /\ call.params = <<"Table">>
    /\ call.args = <<Num(22)>>
    /\ call.failed = 1
    /\ call.outcome = "crash"

HasExpected(m, k) == "expected" \in DOMAIN m /\ m.expected = k

\* C8: when parameter i of an adapted function is the leftmost whose
\* extraction fails, the error raised names argument position i and the
\* expected kind of that parameter ("number expected, got string").
C8_PositionAndKind ==
    (call.kind = "function" /\ call.outcome = "lua_error") =>
        /\ call.msg.pos = call.failed
        /\ HasExpected(call.msg, ExpectedKind(call.params[call.failed]))

\* c_func(int) has been called with 'String': an error for argument 1
C8_Witness ==
    /\ call.kind = "function"
    /\ call.params = <<"double">>
    /\ call.args = <<Str("String")>>
    /\ call.outcome = "lua_error"
    /\ call.msg.pos = 1

\* the argument a script supplied for declared parameter i
Supplied(i) == IF i <= Len(call.args) THEN call.args[i] ELSE NoneV

\* the argument x is present and of the type parameter kind T takes
Acceptable(T, x, safety) ==
    CASE T = "double" -> lua_isnumber(x)
      [] T = "const char*" -> lua_isstring(x)
      [] T = "Table" -> x.t = "table"
      [] T = "Type1*" -> x.t = "userdata" /\ (safety => IsA(x.s, "Type1"))

BadPositions ==
    {i \in 1..Len(call.params) : ~Acceptable(call.params[i], Supplied(i), call.safety)}

LeftmostBad == CHOOSE i \in BadPositions : \A j \in BadPositions : i <= j

\* C9: a constructor closure or bound-method closure called with a declared
\* argument missing or of the wrong type (also when fewer arguments are
\* supplied than declared, for number, string and pointer parameters) raises
\* a runtime error naming that argument's 1-based position; the constructor
\* or method is not run and no instance is returned.
C9_ArgumentFailure ==
    (/\ call.kind \in {"constructor", "method"}
     /\ \A i \in 1..Len(call.params) : call.params[i] \in {"double", "const char*", "Type1*"}
     /\ BadPositions # {}) =>
        /\ call.outcome = "lua_error"
        /\ call.msg.pos = LeftmostBad
        /\ ~call.invoked
        /\ call.result = NoneV

\* a type whose constructor takes a Type1* has been called with no argument,
\* and the constructor has run on the address of its own storage
C9_Witness ==
    /\ call.kind = "constructor"
    /\ call.params = <<"Type1*">>
    /\ call.args = <<>>
    /\ call.invoked
    /\ call.hostArgs = <<CV("Type1*", RawUD.n, "raw")>>
    /\ call.result = UD("Type1", RawUD.n)

\* C10: a bound method called with a value at position 1 that is not an
\* object of the bound type or of a descendant fails as stack_get<TClass*>
\* does, and the member function is not run on it.
C10_ReceiverChecked ==
    (call.kind = "method" /\ Extract("Type1*", call.recv, call.safety) = {Failure}) =>
        /\ ~call.invoked
        /\ call.outcome = "lua_error"

\* a method has been called on a number and has run with this == nullptr
C10_Witness ==
    /\ call.kind = "method"
    /\ call.recv = Num(22)
    /\ call.invoked
    /\ call.self = 0

\* C25: the closure of add_custom_and_default_constructors<Args...> runs the
\* default constructor exactly when the call has no argument; called with at
\* least one argument, a call that returns has given the constructor every
\* declared Arg, in order, extracted from the supplied argument at the same
\* position; either way the one value returned is the new instance carrying
\* the type's metatable.
C25_CustomOrDefault ==
    (call.kind = "constructor_or_default" /\ call.outcome = "returned") =>
        /\ call.invoked
        /\ call.dflt <=> Len(call.args) = 0
        /\ ~call.dflt =>
              /\ Len(call.hostArgs) = Len(call.params)
              /\ \A i \in 1..Len(call.params) :
                    /\ i <= Len(call.args)
                    /\ Ok(call.hostArgs[i]) \in Extract(call.params[i], call.args[i], call.safety)
        /\ call.result = UD("Type1", RawUD.n)

\* add_custom_and_default_constructors<double, Type1*> called with one
\* number: the constructor has run with the address of its own storage as
\* the second argument
C25_Witness ==
    /\ call.kind = "constructor_or_default"
    /\ call.params = <<"double", "Type1*">>
    /\ call.args = <<Num(22)>>
    /\ call.outcome = "returned"
    /\ call.hostArgs[2] = CV("Type1*", RawUD.n, "raw")

\* ------------------------------------------------------------------------
\* Properties of Part IV
\* ------------------------------------------------------------------------

\* the declared parent of a class ("": none)
ParentClass(c) == IF c = "Type2" THEN "Type1" ELSE ""

\* the single-parent chain of a class, itself first
RECURSIVE ParentChain(_)
ParentChain(c) == IF c = "" THEN {} ELSE {c} \cup ParentChain(ParentClass(c))

\* a pointer has been asked of the global in the build with the safety layer
SafeGetDone(cls) == codec.op = "get" /\ codec.T = cls \o "*"

TableOps == {"length", "get", "set", "for_each", "from_stack", "drop"}

\* the last Table operation has returned to its caller
VmReturned == vm.op \in TableOps /\ vm.out = "returned"

\* C12: Table::length, get, set (every key branch), for_each, making a handle
\* from a stack index and dropping a handle return with the stack as high as
\* it was when they were called, and raise no runtime error of their own.
C12_StackBalanced ==
    VmReturned => /\ Len(vm.st.stk) = Len(vm.st0.stk)
                  /\ ~vm.st.err

C12_Witness ==
    /\ vm.op = "for_each" /\ vm.out = "returned"
    /\ Len(vm.log) >= 2
    /\ Len(vm.st0.stk) = 2 /\ Len(vm.st.stk) = 2

\* the runtime key a host key denotes: the value the codec makes of it
RuntimeKey(key) == stack_push(key)

\* C14: after set(k, v), get<K, V>(k) returns v, and the entry under every
\* runtime key other than the one k denotes is what it was before the set
\* (integer, floating-point, boolean and string keys never share an entry).
C14_RoundTripNoAlias ==
    (vm.op = "set" /\ vm.out = "returned") =>
        /\ \A e \in Table_get(vm.st, vm.key, vm.val.T) : e.res = Ok(vm.val)
        /\ \A k \in VmKeys : k # RuntimeKey(vm.key) => vm.st.tab[k] = vm.st0.tab[k]

\* set(1.5, "Value") on a table whose entry 1 is 12.5: entry 1 is overwritten
C14_Witness ==
    /\ vm.op = "set" /\ vm.out = "returned"
    /\ vm.key = CV("double", 1, ".5") /\ vm.val = CV("const char*", 0, "Value")
    /\ vm.st0.tab[Num(1)] = Frac(12)
    /\ vm.st.tab[Num(1)] = Str("Value")
    /\ vm.st.tab[Frac(1)] = Nil

\* the keys of the entries the table held when the last operation began
EntryKeys == {k \in VmKeys : vm.st0.tab[k] # Nil}

\* x converts to T: stack_get<T> on x returns a valid Result
Converts(T, x) == \A r \in stack_get(T, x) : r.valid

\* every key of the table converts to TKey and every value to TValue
AllConvert ==
    \A k \in EntryKeys : Converts(vm.TK, k) /\ Converts(vm.TV, vm.st0.tab[k])

\* the callback's arguments for the entry under k
CallbackArgs(k) ==
    LET kr == CHOOSE r \in stack_get(vm.TK, k) : TRUE
        vr == CHOOSE r \in stack_get(vm.TV, vm.st0.tab[k]) : TRUE
    IN  <<kr.value, vr.value>>

\* C15: on a table whose keys all convert to TKey and whose values all
\* convert to TValue, for_each<TKey, TValue> returns, and has called the
\* callback exactly once for every entry of the table, with the entry's own
\* key and value, and no other time.
C15_VisitsEachOnce ==
    (vm.op = "for_each" /\ AllConvert) =>
        /\ vm.out = "returned"
        /\ Len(vm.log) = Cardinality(EntryKeys)
        /\ \A k \in EntryKeys :
              Cardinality({i \in 1..Len(vm.log) : vm.log[i] = CallbackArgs(k)}) = 1

\* for_each<const char*, int> over {1, 2, 3}: one call, then lua_next fails
C15_Witness ==
    /\ vm.op = "for_each" /\ vm.TK = "const char*"
    /\ EntryKeys = {Num(i) : i \in 1..MaxSeq}
    /\ vm.out = "lua_error" /\ vm.msg = "invalid key to 'next'"
    /\ Len(vm.log) = 1

\* stack_get<TKey> leaves the keys of the table as they are
KeysUndisturbed == \A k \in EntryKeys : SlotAfterGet(vm.TK, k) = k

\* C16: when a key or a value of the table does not convert, for_each ends
\* with the one error of the traversal, and the callback has not been called
\* at all: neither with the entry that failed nor with any other entry.
C16_AggregatedFailure ==
    (vm.op = "for_each" /\ ~AllConvert /\ KeysUndisturbed) =>
        /\ vm.out = "lua_error" /\ vm.msg = ForEachMessage
        /\ vm.log = <<>>

\* for_each<int, int> over {1, "Value"}: the callback has run for entry 1
\* when the conversion of entry 2 fails
C16_Witness ==
    /\ vm.op = "for_each" /\ vm.TK = "long long" /\ vm.TV = "long long"
    /\ vm.st0.tab[Num(1)] = Num(1) /\ vm.st0.tab[Num(2)] = Str("Value")
    /\ vm.out = "lua_error" /\ vm.msg = ForEachMessage
    /\ vm.log = <<<<CV("long long", 1, ""), CV("long long", 1, "")>>>>

\* ------------------------------------------------------------------------
\* Properties of Part VI
\* ------------------------------------------------------------------------
\* the last operation was a call of a script function that has returned
FnReturned == fn.op \in {"call", "call_lua_function"} /\ fn.out = "returned"

\* C13: Function::call, Function::call_void, call_lua_function and
\* call_lua_function_void return with the stack exactly as it was when they
\* were called, whether or not the result converts to the type asked for, at
\* top level and with the arguments of a host closure below.
C13_CallsBalanced == FnReturned => fn.stk = fn.stk0

C13_Witness ==
    /\ FnReturned /\ fn.op = "call"
    /\ fn.R = "long long" /\ ~fn.res.valid
    /\ Len(fn.args) = 2
    /\ fn.stk0 = <<Num(22), Str("C++ string")>> /\ fn.stk = fn.stk0

\* the values stack_push leaves for the arguments, first argument first
RECURSIVE PushedValues(_)
PushedValues(args) ==
    IF args = <<>> THEN <<>> ELSE <<stack_push(Head(args))>> \o PushedValues(Tail(args))

\* C17: a call through a Function object enters the closure held in the
\* object's slot (the function is pushed first, below the arguments), the
\* closure receives exactly the n arguments in the order given, a1 as its
\* first parameter, and is asked for exactly one result by call<R> and for
\* none by call_void; the one result is the value converted and is taken off
\* the stack again.
C17_CallOrder ==
    (fn.op = "call" /\ fn.out # "lua_error") =>
        /\ fn.pushed = fn.reg[fn.obj[fn.via]]
        /\ fn.callee = fn.pushed.n
        /\ fn.recv = PushedValues(fn.args)
        /\ fn.nres = (IF fn.R = "void" THEN 0 ELSE 1)
        /\ fn.stk = fn.stk0
        /\ fn.R = "void" => ~fn.res.valid

C17_Witness ==
    /\ fn.op = "call" /\ fn.out = "returned"
    /\ fn.callee = Second
    /\ fn.args = <<CV("long long", 1, ""), CV("const char*", 0, "a")>>
    /\ fn.recv = <<Num(1), Str("a")>>
    /\ fn.R = "const char*" /\ fn.res = Ok(CV("const char*", 0, "a"))

\* C18: every call through a Function object, or through a copy of it, enters
\* the closure the object was made for; a counting closure returns one more
\* than at its previous call (8, 9, 10 from 7), its upvalue is kept between
\* the calls and the upvalues of the other closures are left alone.
C18_ClosureState ==
    (fn.op = "call" /\ fn.out # "lua_error") =>
        /\ fn.callee = fn.made[fn.via].n
        /\ \A c \in Counters :
              fn.callee = c =>
                 /\ fn.up = [fn.up0 EXCEPT ![c] = @ + 1]
                 /\ fn.up0[c] >= CounterStart
                 /\ fn.R = "long long" => fn.res = Ok(CV("long long", fn.up0[c] + 1, ""))

C18_Witness ==
    /\ fn.op = "call" /\ fn.out = "returned"
    /\ fn.callee = 1 /\ fn.made[1] = Closure(1) /\ fn.made[2] = Closure(1)
    /\ fn.via = 2
    /\ fn.R = "long long" /\ fn.res = Ok(CV("long long", CounterStart + 3, ""))

\* ------------------------------------------------------------------------
\* Properties of Part VII
\* ------------------------------------------------------------------------
\* C19: register_type<T> on a runtime in which T is registered leaves the
\* whole runtime state as it was: the type table with its methods, the
\* metatable, the type table's metatable with the constructor and the parent
\* link, the registry, the global of the type name, and the stack.
C19_Step ==
    (ty'.op = "register_type" /\ Registered(ty'.T)) => ty'.ts = ty.ts

C19_RegisterIdempotent == [][C19_Step]_vars

C19_Witness ==
    /\ ty.op = "register_type" /\ ty.again /\ ty.T = "Type2"
    /\ ty.ts.stk = <<Num(22)>>
    /\ ty.ts.tab[TT("Type2")]["m"] = CFun("Type2::m")
    /\ ty.ts.meta[TT("Type2")] = TTMT("Type2")
    /\ ty.ts.tab[TTMT("Type2")]["__call"] = CFun("Type2::Type2")
    /\ ty.ts.tab[TTMT("Type2")]["__index"] = TRef(TT("Type1"))
    /\ ty.ts.globals["Type2"] = TRef(TT("Type2"))

\* the closure a lookup of name on an instance of T is to find: T's own
\* method if add_method was called for it, else that of the nearest ancestor
\* along the parents given to add_parent_type (nil when there is none)
RECURSIVE Resolve(_, _)
Resolve(T, name) ==
    IF ty.own[T][name] THEN CFun(T \o "::" \o name)
    ELSE IF ty.parent[T] = "none" THEN Nil
    ELSE Resolve(ty.parent[T], name)

\* C20: at any time, a method lookup on an instance of a registered type
\* finds the type's own entry when add_method has made one - also when it was
\* made after the parent link or after earlier lookups - and otherwise the
\* entry of the nearest ancestor along the parent chain; the last lookup a
\* script made returned that closure.
C20_InheritanceResolution ==
    /\ \A T \in TyClasses, name \in MethodNames :
          Registered(T) => MethodLookup(ty.ts, T, name) = Resolve(T, name)
    /\ ty.op = "lookup" => ty.res = Resolve(ty.T, ty.name)

C20_Witness ==
    /\ ty.op = "lookup" /\ ty.T = "Type3" /\ ty.name = "m"
    /\ ty.parent["Type3"] = "Type2" /\ ty.parent["Type2"] = "Type1"
    /\ ~ty.own["Type3"]["m"] /\ ~ty.own["Type2"]["m"] /\ ty.own["Type1"]["m"]
    /\ ty.res = CFun("Type1::m")

\* ------------------------------------------------------------------------
\* Part VIII properties (type extensions, instanceof)
\* ------------------------------------------------------------------------
\* the C++ operator each metamethod stands for
OperatorOf(m) ==
    CASE m = "__add" -> "+" [] m = "__sub" -> "-" [] m = "__mul" -> "*"
      [] m = "__div" -> "/" [] m = "__unm" -> "neg" [] m = "__eq" -> "=="
      [] m = "__lt" -> "<" [] m = "__le" -> "<="

\* metamethod m is installed in the metatable of T
Installed(T, m) == ty.ts.tab[MT(T)][m] # Nil

\* C21: after add_detected_operators on a type, each of the metamethods
\* __add, __sub, __mul, __div, __unm, __eq, __lt, __le is installed in the
\* type's metatable exactly when the C++ class has the corresponding operator,
\* each decided by its own operator alone (__le by <=).
C21_OperatorDetection ==
    ty.op = "add_detected_operators" =>
        \A m \in Metamethods : Installed(Subject, m) <=> OperatorOf(m) \in ty.ext.ops

\* a class with <= as its only operator, after add_detected_operators: the
\* metatable has no __le
C21_Witness ==
    /\ ty.op = "add_detected_operators"
    /\ ty.ext.ops = {"<="}
    /\ ~Installed(Subject, "__le")

\* the closure a call of the type table of T runs: __call of its metatable
CallTarget(ts, T) ==
    IF ts.meta[TT(T)] = "none" THEN Nil ELSE ts.tab[ts.meta[TT(T)]]["__call"]

\* C26: a constructor registration on a type that already has a constructor
\* makes its own closure the one a call of the type runs, and changes no
\* other field of the type table, of its metatable or of the instances'
\* metatable (methods and the parent __index are kept); whatever is
\* registered next, a call of the type runs the last registered constructor.
C26_Step ==
    /\ ty'.ext.ctor # "none" =>
          CallTarget(ty'.ts, Subject) = CFun(Subject \o "::" \o ty'.ext.ctor)
    /\ (ty'.op = "add_constructor" /\ ty.ext.ctor # "none") =>
          /\ ty'.ext.ctor = ty'.name
          /\ ty'.ts.meta = ty.ts.meta
          /\ ty'.ts.tab[TT(Subject)] = ty.ts.tab[TT(Subject)]
          /\ ty'.ts.tab[MT(Subject)] = ty.ts.tab[MT(Subject)]
          /\ \A f \in TyFields \ {"__call"} :
                ty'.ts.tab[TTMT(Subject)][f] = ty.ts.tab[TTMT(Subject)][f]

C26_LastConstructorWins == [][C26_Step]_vars

\* the custom-and-default constructor registered over an earlier constructor,
\* on a type with a method and a parent: the call runs the second closure, the
\* method and the parent link are in place
C26_Witness ==
    /\ ty.op = "add_constructor" /\ ty.name = "custom_and_default" /\ ty.again
    /\ CallTarget(ty.ts, Subject) = CFun(Subject \o "::custom_and_default")
    /\ ty.ts.tab[TT(Subject)]["m"] # Nil
    /\ ty.ts.tab[TTMT(Subject)]["__index"] = TRef(TT(SubjectParent))

\* the fields an extension call writes: <<table, field>>
WritesOf(c, ops) ==
    CASE c.f = "add_parent_type" -> {<<TTMT(Subject), "__index">>}
      [] c.f = "add_constructor" -> {<<TTMT(Subject), "__call">>}
      [] c.f \in {"add_method", "add_static_method"} -> {<<TT(Subject), c.name>>}
      [] c.f = "add_metamethod" -> {<<MT(Subject), c.name>>}
      [] c.f = "add_detected_operators" ->
            {<<MT(Subject), m>> : m \in {x \in Metamethods : OperatorOf(x) \in ops}}

IsInstance(ts, obj, T) ==
    getmetafield_index(ts, obj) # Nil /\ getmetafield_index(ts, obj) = T

\* C28: instanceof(obj, T, ...) called with at least two arguments answers
\* true exactly when obj has a metatable whose __index is raw-equal to T,
\* whatever the further arguments are; a value without an __index
\* metafield, such as a number, gives false.
C28_InstanceofByIndex ==
    (ty.op = "instanceof" /\ Len(ty.ext.args) >= 2) =>
        ty.ext.ans = IsInstance(ty.ts, ty.ext.args[1], ty.ext.args[2])

\* instanceof(obj, Type1, Type2) on an instance of Type1 answers false
C28_Witness ==
    /\ ty.op = "instanceof" /\ Len(ty.ext.args) = 3
    /\ ty.ext.args[1] = ExtInstance("Type1") /\ ty.ext.args[2] = TRef(TT("Type1"))
    /\ IsInstance(ty.ts, ty.ext.args[1], ty.ext.args[2])
    /\ ~ty.ext.ans

\* ------------------------------------------------------------------------
\* Part IX properties (pointer tagging)
\* ------------------------------------------------------------------------
\* the metatable the runtime shows for a light userdata
TagOf(tg) == tg.shared

\* C23: a pointer pushed for a registered pointee type T shows T's metatable,
\* a pointer pushed for an unregistered type shows none, and the push leaves
\* the metatable shown by every pointer of another type pushed before it
\* as it was.
C23_Step ==
    light'.op = "push_pointer" =>
        /\ TagOf(light') = (IF light'.T \in light.reg THEN light'.T ELSE "none")
        /\ (\E i \in 1..Len(light.ptrs) : light.ptrs[i] # light'.T) => TagOf(light') = TagOf(light)

C23_PointerTagging == [][C23_Step]_vars

\* latest revision: Type1 is registered, a Type1* has been pushed and shows
\* no metatable
C23_Witness ==
    /\ light.rev = "lua_w.h:924"
    /\ light.op = "push_pointer" /\ light.T = "Type1" /\ "Type1" \in light.reg
    /\ TagOf(light) = "none"

C22_Step ==
    heap'.op = "member" =>
        LET before == heap.blocks[heap'.b]
            after == heap'.blocks[heap'.b]
        IN  /\ Len(heap'.args) = 0 => heap'.ret = <<before[heap'.name]>> /\ after = before
            /\ Len(heap'.args) = 1 =>
                  /\ member_accessor(after, heap'.name, <<>>).ret = <<heap'.args[1]>>
                  /\ after = [before EXCEPT ![heap'.name] = heap'.args[1]]
            /\ \A c \in 1..MaxBlocks \ {heap'.b} : heap'.blocks[c] = heap.blocks[c]

C22_MemberAccessor == [][C22_Step]_vars

\* v:x(0) on Vec2(4, 4): x is 0, y still 4
C22_Witness ==
    /\ heap.op = "member" /\ heap.name = "x" /\ heap.args = <<0>>
    /\ heap.blocks[heap.b].x = 0 /\ heap.blocks[heap.b].y = 4

====
